---- MODULE Spec2Model ----
(***************************************************************************)
(* A model of the lc0 search core (src/src/mcts/search.cc) and of the part *)
(* of the engine controller that drives it (src/src/engine.cc).            *)
(*                                                                         *)
(* One Search object works on a small game tree.  Worker threads run       *)
(* SearchWorker::ExecuteOneIteration; every critical section of the code   *)
(* (a region under nodes_mutex_ and/or counters_mutex_) is one action, and *)
(* regions the code runs without a lock (ExtendNode) are actions of their  *)
(* own.  The host thread calls StartThreads, Stop, Abort, GetBestMove and  *)
(* Wait.  Network outputs (Q, P) are not interpreted: wherever the code    *)
(* takes the argmax of a PUCT score, the model chooses any child that the  *)
(* integer-valued filters of the code leave eligible.                      *)
(***************************************************************************)
EXTENDS Integers, Sequences, FiniteSets, TLC

(***************************************************************************)
(* Bounds of the model.                                                    *)
(***************************************************************************)
\* Most worker threads StartThreads is asked for.
MaxThreads == 2
\* Most iterations (ExecuteOneIteration) all workers together begin.
MaxIters == 2
\* The clock takes the values 0, TimeStep, ..., MaxTicks * TimeStep (ms).
MaxTicks == 1
TimeStep == 5000

(***************************************************************************)
(* Program constants and option values.                                    *)
(***************************************************************************)
kSmartPruningToleranceNodes == 100
kSmartPruningToleranceMs == 200
kUciInfoMinimumFrequencyMs == 5000
IntMax == 2147483647
\* Option values of the Search under study.
kMiniBatchSize == 2
kAllowedNodeCollisions == 1
kMaxPrefetchBatch == 2
kSmartPruning == TRUE

(***************************************************************************)
(* The game: a finite tree of positions.  A node is named by a number, and *)
(* the move leading to a node is named by the node.                        *)
(*      0 -+- 1 --- 3   (3: legal moves, but a draw by rule)               *)
(*         +- 2         (2: checkmate)                                     *)
(* Node 4 stands for the positions below node 3, which are never created.  *)
(***************************************************************************)
Root == 0
NoNode == -1
Nodes == 0..4
\* The null move a default-constructed Move is.
NullMove == -1
\* A move string the host can send that is no legal move at the root.
IllegalMove == 9
\* What reading a move through a null Node pointer may yield.
GarbageMove == 99

Parent(n) == CASE n \in {1, 2} -> 0
               [] n = 3 -> 1
               [] n = 4 -> 3
               [] OTHER -> NoNode

VARIABLES
  \* ---- configuration of the search, fixed at construction
  rootLegal,      \* legal moves of the root position
  rootInCheck,    \* whether the side to move at the root is in check
  limits,         \* SearchLimits: visits, playouts, time_ms, infinite, searchmoves
  initial_visits, \* Search::initial_visits_
  \* ---- the tree (Node fields)
  n_,             \* Node::n_ : completed visits
  n_in_flight,    \* Node::n_in_flight_
  children,       \* the child nodes created for a node
  terminal,       \* Node::is_terminal_
  max_depth,      \* Node::max_depth_
  full_depth,     \* Node::full_depth_
  \* ---- Search fields
  stop,
  responded_bestmove,
  total_playouts,
  remaining_playouts,
  found_best_move,
  best_move_node,
  best_move,                       \* Search::best_move_.first
  last_outputted_best_move_node,
  uci_info,                        \* depth, seldepth, time of the last info
  cache,                           \* NNCache: the positions it holds
  \* ---- workers and the host thread
  wk,             \* per worker: program counter and locals
  iters,          \* iterations begun so far
  now,            \* milliseconds since start_time_
  host,           \* what the host thread is doing
  crashed,        \* the process died of a null dereference
  \* ---- what the outside saw, and history the properties speak about
  bestmove_events,   \* number of calls of best_move_callback_
  bestmove_sent,     \* the move of the last best-move event
  info_events,       \* number of calls of info_callback_ from SendUciInfo
  obs                \* history: see ObsInit

VARIABLES
  \* ---- a function of the engine studied on its own: its inputs and result
  call,           \* the function called and its arguments
  ret             \* what it returned, or NoCall

VARIABLES
  \* ---- the engine controller and the thread of the UCI loop
  engine_,        \* EngineLoop::engine_ : the fields of the EngineController
  loop            \* the handler the loop thread is in, and where

VARIABLES
  \* ---- the streaming network backend (neural/network_stream.cc)
  stream          \* its task queue, its computations and its threads

VARIABLES
  \* ---- the mutexes of a Search and the threads that take them
  sync            \* who holds which mutex, and what each thread does next

\* What lies outside the Search object.
outside == <<call, ret, engine_, loop, stream, sync>>
tree == <<n_, n_in_flight, children, terminal, max_depth, full_depth>>
config == <<rootLegal, rootInCheck, limits, initial_visits>>
search == <<stop, responded_bestmove, total_playouts, remaining_playouts,
            found_best_move, best_move_node, best_move,
            last_outputted_best_move_node, uci_info>>
events == <<bestmove_events, bestmove_sent, info_events>>
vars == <<outside, config, tree, search, cache, wk, iters, now, host, crashed, events, obs>>

Workers == 1..MaxThreads

Max(a, b) == IF a >= b THEN a ELSE b
\* C++ integer division truncates towards zero.
TruncDiv(a, b) == IF a >= 0 THEN a \div b ELSE -((-a) \div b)


(***************************************************************************)
(* The board library, as far as ExtendNode uses it.                        *)
(***************************************************************************)
GenerateLegalMoves(n) ==
  IF n = Root THEN rootLegal
  ELSE CASE n = 1 -> {3}
         [] n = 3 -> {4}
         [] OTHER -> {}

IsUnderCheck(n) == IF n = Root THEN rootInCheck ELSE n = 2

\* No mating material, or 100 plies without capture, or a third repetition:
\* the root position is one of these (the game has reached it for the third
\* time), and so is the position of node 3.
IsDrawByRule(n) == n \in {Root, 3}

(***************************************************************************)
(* Node operations.                                                        *)
(***************************************************************************)
IsTerminal(n) == terminal[n] # "NONE"
HasChildren(n) == children[n] # {}
GetNStarted(n) == n_[n] + n_in_flight[n]

\* Node::TryStartScoreUpdate: false, and no increment, when the node is being
\* extended (n = 0 and a visit in flight); otherwise n_in_flight is incremented.
TryStartScoreUpdate(n) == ~(n_[n] = 0 /\ n_in_flight[n] > 0)

\* Node::UpdateFullDepth(&depth) on the tree record T: the new T, the new depth
\* and the returned flag.
UpdateFullDepth(T, n, d) ==
  IF T.fd[n] > d THEN [T |-> T, d |-> d, ok |-> FALSE]
  ELSE LET below == {T.fd[c] : c \in children[n]} \cup {d}
           d2 == CHOOSE x \in below : \A y \in below : x <= y
       IN IF d2 >= T.fd[n]
          THEN [T |-> [T EXCEPT !.fd[n] = d2 + 1], d |-> d2 + 1, ok |-> TRUE]
          ELSE [T |-> T, d |-> d2, ok |-> FALSE]

(***************************************************************************)
(* Initial states: a Search just constructed on a tree.                    *)
(***************************************************************************)
\* The searches studied: the root position (its legal moves, whether it is in
\* check), whether the tree is kept from an earlier search, and the limits.
Go(legal, check, reused, visits, playouts, time_ms, infinite, searchmoves) ==
  [legal |-> legal, check |-> check, reused |-> reused,
   limits |-> [visits |-> visits, playouts |-> playouts, time_ms |-> time_ms,
               infinite |-> infinite, searchmoves |-> searchmoves]]

\* The search sc on a tree kept from an earlier search that had two playouts
\* through root child 1.
KeptWithVisits(sc) ==
  [legal |-> sc.legal, check |-> sc.check, reused |-> TRUE,
   limits |-> sc.limits, visited |-> TRUE]
Visited(sc) == "visited" \in DOMAIN sc

\* The search sc begun while the NNCache, which outlives a search, holds the
\* evaluation of the position after root move 1.
WithCachedChild(sc) ==
  [legal |-> sc.legal, check |-> sc.check, reused |-> sc.reused,
   limits |-> sc.limits, cached |-> {1}]
CachedAtStart(sc) == IF "cached" \in DOMAIN sc THEN sc.cached ELSE {}

Scenarios ==
  { Go({1, 2}, FALSE, FALSE, -1, -1, -1, TRUE, {}),
    Go({1, 2}, FALSE, TRUE, -1, -1, -1, TRUE, {}),
    Go({1, 2}, FALSE, TRUE, 3, -1, -1, FALSE, {}),
    Go({1, 2}, FALSE, FALSE, -1, 2, -1, FALSE, {}),
    Go({1, 2}, FALSE, TRUE, -1, -1, TimeStep, FALSE, {}),
    Go({1, 2}, FALSE, TRUE, -1, -1, -1, FALSE, {1}),
    Go({1, 2}, FALSE, TRUE, -1, -1, -1, TRUE, {IllegalMove}),
    Go({1, 2}, FALSE, TRUE, -1, -1, -1, TRUE, {1}),
    Go({}, FALSE, FALSE, 1, -1, -1, FALSE, {}),
    Go({}, TRUE, FALSE, -1, -1, -1, TRUE, {}),
    KeptWithVisits(Go({1, 2}, FALSE, TRUE, -1, -1, -1, TRUE, {})),
    KeptWithVisits(Go({1, 2}, FALSE, TRUE, 4, -1, -1, FALSE, {})),
    WithCachedChild(Go({1, 2}, FALSE, TRUE, -1, -1, -1, TRUE, {})) }

\* No function is under study.
NoCall == [fn |-> "none"]
\* A null pointer.
NullPtr == [null |-> TRUE]
\* Option values the host can set (setoption): a weights file that cannot be
\* read, and backend options with which no backend can be created, are among
\* them.
kAutoDiscover == "<autodiscover>"
WeightsFiles == {kAutoDiscover, "missing.pb"}
Backends == {"backend0", "backend1"}
BackendOptions == {"", "bad"}
\* Whether LoadWeightsFromFile returns (line 176), and whether
\* NetworkFactory::Create does (line 181), rather than throw.
LoadWeightsFromFile(path) == path # "missing.pb"
Create(backend, backend_options) == backend_options # "bad"

\* The loop thread is in no handler.
LoopIdle == [fn |-> "idle", at |-> 0, threw |-> FALSE, made |-> NullPtr]
\* The EngineController just constructed, with the default option values
\* (lines 69-79).
EngineConstructed ==
  /\ engine_ = [options_ |-> [weights |-> kAutoDiscover, backend |-> "backend0",
                              backend_opts |-> ""],
                network_path_ |-> "", backend_ |-> "", backend_options_ |-> "",
                network_ |-> NullPtr, cache_ |-> {}, tree_ |-> NullPtr,
                search_ |-> NullPtr]
  /\ loop = LoopIdle

\* No streaming network exists.
NoStream == [version |-> 0]
\* The mutexes of the search are not followed.
NoSync == [stop_ |-> FALSE]
OutsideIdle ==
  /\ call = NoCall /\ ret = NoCall /\ EngineConstructed /\ stream = NoStream
  /\ sync = NoSync

WorkerIdle == [pc |-> "none", node |-> NoNode, is_root |-> FALSE, best_n |-> 0,
               ntp |-> <<>>, found |-> 0, coll |-> 0, comp |-> <<>>]

\* History variables: what happened, for the properties to speak about.
\*   aborted, stop_called  the host has called Abort, Stop
\*   stop_at_zero          Stop was called while total_playouts was 0
\*   skipped               a MaybeTriggerStop returned at line 233
\*   nn_failed             a ComputeBlocking failed
\*   extended[n]           how often ExtendNode ran on node n
\*   queried               the nodes GatherMinibatch added to a computation
\*   late[w]               iterations worker w began with stop already set
ObsInit == [aborted |-> FALSE, stop_called |-> FALSE, stop_at_zero |-> FALSE,
            skipped |-> FALSE, nn_failed |-> FALSE,
            extended |-> [n \in Nodes |-> 0], queried |-> {},
            late |-> [w \in Workers |-> 0]]

\* The tree the search starts on: the root alone, never visited; a tree kept
\* from an earlier search, whose root was extended and visited once; or one
\* kept after two playouts through root child 1 (the second ended in node 3,
\* a draw by rule).
InitialTree(sc) ==
  IF Visited(sc)
  THEN /\ n_ = [n \in Nodes |-> CASE n = Root -> 3 [] n = 1 -> 2 [] n = 3 -> 1
                                   [] OTHER -> 0]
       /\ children = [n \in Nodes |-> CASE n = Root -> sc.legal [] n = 1 -> {3}
                                         [] OTHER -> {}]
       /\ max_depth = [n \in Nodes |-> CASE n = Root -> 3 [] n = 1 -> 2
                                          [] n = 3 -> 1 [] OTHER -> 0]
       /\ full_depth = [n \in Nodes |-> CASE n = Root -> 1 [] n = 1 -> 1001
                                           [] n = 3 -> 1000 [] OTHER -> 0]
       /\ terminal = [n \in Nodes |-> IF n = 3 THEN "DRAW" ELSE "NONE"]
  ELSE /\ n_ = [n \in Nodes |-> IF sc.reused /\ n = Root THEN 1 ELSE 0]
       /\ children = [n \in Nodes |-> IF sc.reused /\ n = Root THEN sc.legal ELSE {}]
       /\ max_depth = [n \in Nodes |-> IF sc.reused /\ n = Root THEN 1 ELSE 0]
       /\ full_depth = [n \in Nodes |-> IF sc.reused /\ n = Root THEN 1 ELSE 0]
       /\ terminal = [n \in Nodes |-> "NONE"]

\* A Search just constructed for one of the searches S.
SearchConstructed(S) ==
  /\ \E sc \in S :
       /\ rootLegal = sc.legal
       /\ rootInCheck = sc.check
       /\ limits = sc.limits
       /\ InitialTree(sc)
       /\ cache = CachedAtStart(sc)
  /\ n_in_flight = [n \in Nodes |-> 0]
  /\ initial_visits = n_[Root]
  /\ stop = FALSE
  /\ responded_bestmove = FALSE
  /\ total_playouts = 0
  /\ remaining_playouts = IntMax
  /\ found_best_move = FALSE
  /\ best_move_node = NoNode
  /\ best_move = NullMove
  /\ last_outputted_best_move_node = NoNode
  /\ uci_info = [depth |-> -1, seldepth |-> -1, time |-> -1]
  /\ wk = [w \in Workers |-> WorkerIdle]
  /\ iters = 0
  /\ now = 0
  /\ host = "new"
  /\ crashed = FALSE
  /\ bestmove_events = 0
  /\ bestmove_sent = NullMove
  /\ info_events = 0
  /\ obs = ObsInit

Init == OutsideIdle /\ SearchConstructed(Scenarios)


(***************************************************************************)
(* The caching computation of one iteration: a sequence of slots, each the *)
(* position (node) it is for and whether the cache already held it.        *)
(***************************************************************************)
GetCacheMisses(comp) == Cardinality({i \in 1..Len(comp) : ~comp[i].hit})
GetBatchSize(comp) == Len(comp)

RECURSIVE SetToSeq(_)
SetToSeq(S) ==
  IF S = {} THEN <<>>
  ELSE LET x == CHOOSE y \in S : \A z \in S : y <= z
       IN <<x>> \o SetToSeq(S \ {x})

(***************************************************************************)
(* Search: helpers of the worker iteration.                                *)
(***************************************************************************)
\* The searchmoves filter of the root (lines 586-591, 356-360).
NotInSearchMoves(c) == limits.searchmoves # {} /\ c \notin limits.searchmoves

\* The smart-pruning test of PickNodeToExtend (lines 580-584) for root child c,
\* with the snapshot best_node_n the worker took when the pick began.
IsPruned(c, best_node_n) ==
  /\ c # best_move_node
  /\ remaining_playouts < best_node_n - n_[c]

\* The children of `node` the selection loop of PickNodeToExtend may pick.
PossibleMoves(node, is_root_node, best_node_n) ==
  IF is_root_node
  THEN {c \in children[node] : ~IsPruned(c, best_node_n) /\ ~NotInSearchMoves(c)}
  ELSE children[node]

\* The leaves PrefetchIntoCache can reach from n: nodes nobody started, below
\* visited, non-terminal nodes.
RECURSIVE PrefetchLeaves(_)
PrefetchLeaves(n) ==
  IF GetNStarted(n) = 0 THEN {n}
  ELSE IF n_[n] = 0 \/ IsTerminal(n) THEN {}
  ELSE UNION {PrefetchLeaves(c) : c \in children[n]}

(***************************************************************************)
(* SearchWorker::RunBlocking and the seven steps of ExecuteOneIteration.   *)
(***************************************************************************)
\* IsSearchActive (lines 480-483).
IsSearchActive == ~stop

\* SearchWorker::RunBlocking: iterations are run while IsSearchActive().
RunBlocking(w) ==
  /\ ~crashed
  /\ wk[w].pc = "loop"
  /\ IF ~IsSearchActive
     THEN /\ wk' = [wk EXCEPT ![w].pc = "done"]
          /\ iters' = iters
     ELSE /\ iters < MaxIters
          /\ wk' = [wk EXCEPT ![w] = [WorkerIdle EXCEPT !.pc = "gather"]]
          /\ iters' = iters + 1
  /\ UNCHANGED <<outside, config, tree, search, cache, now, host, crashed, events, obs>>

\* 1. InitializeIteration, when the iteration begins, and 2. GatherMinibatch:
\* the loop head (lines 501-503) and, when the loop goes on, the start of
\* PickNodeToExtend (lines 537-549).
GatherMinibatch(w) ==
  /\ ~crashed
  /\ wk[w].pc = "gather"
  /\ IF /\ wk[w].found < kMiniBatchSize
        /\ ~(wk[w].found > 0 /\ GetCacheMisses(wk[w].comp) = 0)
     THEN wk' = [wk EXCEPT ![w].pc = "start",
                           ![w].node = Root,
                           ![w].is_root = TRUE,
                           ![w].best_n = IF best_move_node # NoNode
                                         THEN n_[best_move_node] ELSE 0]
     ELSE wk' = [wk EXCEPT ![w].pc = "prefetch",
                           ![w].node = NoNode, ![w].is_root = FALSE,
                           ![w].best_n = 0]
  /\ obs' = [obs EXCEPT !.late[w] = IF stop /\ wk[w].ntp = <<>> THEN @ + 1 ELSE @]
  /\ UNCHANGED <<outside, config, tree, search, cache, iters, now, host, crashed, events>>

\* A pick that never sees a collision.
IsCollision_Never(node) == FALSE

\* Line 556: the pick ends in a collision when TryStartScoreUpdate fails.
IsCollision(node) == ~TryStartScoreUpdate(node)

\* A gathering that sends every extended leaf to the network.
IsSentToNN_Always(result) == TRUE

\* Line 524: only a node that is not terminal after ExtendNode is sent to the
\* network; `result` is the game result ExtendNode found.
IsSentToNN(result) == result = "NONE"

\* Where GatherMinibatch goes after a collision (lines 510-513).
AfterCollision(w, coll) ==
  IF coll > kAllowedNodeCollisions THEN "prefetch" ELSE "gather"

\* PickNodeToExtend, the first block of the descent loop (lines 552-561), and
\* what GatherMinibatch does with a returned node up to ExtendNode (505-518).
PickNodeToExtend(w) ==
  /\ ~crashed
  /\ wk[w].pc = "start"
  /\ LET node == wk[w].node IN
     IF IsCollision(node)
     THEN /\ wk' = [wk EXCEPT
                 ![w].ntp = Append(@, [node |-> node, is_collision |-> TRUE,
                                       nn_queried |-> FALSE,
                                       v_of |-> NoNode]),
                 ![w].coll = @ + 1,
                 ![w].pc = AfterCollision(w, wk[w].coll + 1),
                 ![w].node = NoNode, ![w].is_root = FALSE, ![w].best_n = 0]
          /\ UNCHANGED n_in_flight
     ELSE /\ n_in_flight' = [n_in_flight EXCEPT ![node] = @ + 1]
          /\ IF ~HasChildren(node)
             THEN wk' = [wk EXCEPT
                    ![w].ntp = Append(@, [node |-> node, is_collision |-> FALSE,
                                          nn_queried |-> FALSE,
                                          v_of |-> NoNode]),
                    ![w].found = @ + 1,
                    ![w].pc = IF IsTerminal(node) THEN "gather" ELSE "extend",
                    ![w].node = IF IsTerminal(node) THEN NoNode ELSE node,
                    ![w].is_root = FALSE, ![w].best_n = 0]
             ELSE wk' = [wk EXCEPT ![w].pc = "select"]
  /\ UNCHANGED <<outside, config, n_, children, terminal, max_depth, full_depth, search,
                 cache, iters, now, host, crashed, events, obs>>

OnlyOneMovePossible_IgnoresInfinite(is_root_node, possible_moves) ==
  is_root_node /\ possible_moves <= 1

\* The test of line 605.
OnlyOneMovePossible(is_root_node, possible_moves) ==
  is_root_node /\ possible_moves <= 1 /\ ~limits.infinite

\* PickNodeToExtend, the selection under the shared lock (lines 563-612).
PickChild(w) ==
  /\ ~crashed
  /\ wk[w].pc = "select"
  /\ LET possible == PossibleMoves(wk[w].node, wk[w].is_root, wk[w].best_n) IN
     /\ \E c \in (IF possible = {} THEN {wk[w].node} ELSE possible) :
          wk' = [wk EXCEPT ![w].node = c, ![w].is_root = FALSE, ![w].pc = "start"]
     /\ found_best_move' =
          IF OnlyOneMovePossible(wk[w].is_root, Cardinality(possible))
          THEN TRUE ELSE found_best_move
  /\ UNCHANGED <<outside, config, tree, stop, responded_bestmove, total_playouts,
                 remaining_playouts, best_move_node, best_move,
                 last_outputted_best_move_node, uci_info,
                 cache, iters, now, host, crashed, events, obs>>

\* CachingComputation::AddInputByHash on a position the cache holds: it
\* returns true and reserves no slot.
AddInputByHash(comp, node) == comp
\* CachingComputation::AddInput: the position gets the next slot.  The test
\* of line 662 has just found the cache without it, so it is a miss.
AddInput(comp, node) == Append(comp, [node |-> node, hit |-> FALSE])
\* AddNodeToComputation(node) as GatherMinibatch calls it (lines 658-690).
AddNodeToComputation(comp, node) ==
  IF node \in cache THEN AddInputByHash(comp, node) ELSE AddInput(comp, node)

\* FetchNNResults (lines 795-827) on nodes_to_process_ from entry i on, idx
\* being idx_in_computation (counted from 0): each nn-queried entry gets,
\* as v_of, the position whose results slot idx holds, or garbage when the
\* computation has no such slot.
GarbageNode == -2
RECURSIVE FetchLoop(_, _, _, _)
FetchLoop(ntp, comp, i, idx) ==
  IF i > Len(ntp) THEN ntp
  ELSE IF ~ntp[i].nn_queried THEN FetchLoop(ntp, comp, i + 1, idx)
  ELSE FetchLoop([ntp EXCEPT ![i].v_of = IF idx + 1 <= Len(comp)
                                         THEN comp[idx + 1].node
                                         ELSE GarbageNode],
                 comp, i + 1, idx + 1)
FetchNNResults(ntp, comp) ==
  IF GetBatchSize(comp) = 0 THEN ntp ELSE FetchLoop(ntp, comp, 1, 0)
\* Whether FetchNNResults reads a slot the computation does not have.
FetchReadsPastBatch(ntp, comp) ==
  \E i \in 1..Len(ntp) : FetchNNResults(ntp, comp)[i].v_of = GarbageNode

\* A test for the draws by rule that does not spare the root.
IsShortCircuitDraw_AlsoAtRoot(node) == IsDrawByRule(node)

\* Lines 634-651: the draws by rule end the node unless it is the root.
IsShortCircuitDraw(node) == node # Root /\ IsDrawByRule(node)

\* ExtendNode (lines 616-655) and the rest of the loop body of GatherMinibatch
\* (lines 523-527) with AddNodeToComputation (lines 658-690).
ExtendNode(w) ==
  /\ ~crashed
  /\ wk[w].pc = "extend"
  /\ LET node == wk[w].node
         legal_moves == GenerateLegalMoves(node)
         result == IF legal_moves = {}
                   THEN (IF IsUnderCheck(node) THEN "WHITE_WON" ELSE "DRAW")
                   ELSE IF IsShortCircuitDraw(node) THEN "DRAW"
                   ELSE "NONE"
         last == Len(wk[w].ntp)
     IN /\ terminal' = [terminal EXCEPT ![node] = result]
        /\ children' = [children EXCEPT
                          ![node] = IF result = "NONE" THEN legal_moves ELSE @]
        /\ IF IsSentToNN(result)
           THEN /\ wk' = [wk EXCEPT
                       ![w].ntp[last].nn_queried = TRUE,
                       ![w].comp = AddNodeToComputation(@, node),
                       ![w].pc = "gather", ![w].node = NoNode]
                /\ obs' = [obs EXCEPT !.extended[node] = @ + 1,
                                      !.queried = @ \cup {node}]
           ELSE /\ wk' = [wk EXCEPT ![w].pc = "gather", ![w].node = NoNode]
                /\ obs' = [obs EXCEPT !.extended[node] = @ + 1]
  /\ UNCHANGED <<outside, config, n_, n_in_flight, max_depth, full_depth, search, cache,
                 iters, now, host, crashed, events>>

\* 3. MaybePrefetchIntoCache (lines 694-783): any set of reachable unstarted
\* leaves within the budget; those the cache lacks become inputs.
MaybePrefetchIntoCache(w) ==
  /\ ~crashed
  /\ wk[w].pc = "prefetch"
  /\ LET misses == GetCacheMisses(wk[w].comp) IN
     IF misses > 0 /\ misses < kMaxPrefetchBatch
     THEN \E S \in SUBSET PrefetchLeaves(Root) :
            /\ Cardinality(S) <= kMaxPrefetchBatch - misses
            /\ wk' = [wk EXCEPT
                   ![w].comp = @ \o [i \in 1..Cardinality(S \ cache) |->
                                       [node |-> SetToSeq(S \ cache)[i],
                                        hit |-> FALSE]],
                   ![w].pc = "compute"]
     ELSE wk' = [wk EXCEPT ![w].pc = "compute"]
  /\ UNCHANGED <<outside, config, tree, search, cache, iters, now, host, crashed, events, obs>>

\* 4. RunNNComputation (lines 787-791): ComputeBlocking stores every miss in
\* the cache.  5. FetchNNResults copies V and P from the slots; reading a
\* slot the computation does not have yields garbage or ends the process.
\* A ComputeBlocking that fails throws; nothing between it and the thread
\* function of StartThreads (lines 408-411) catches, so the exception leaves
\* the thread function and the process is terminated.
RunNNComputation(w) ==
  /\ ~crashed
  /\ wk[w].pc = "compute"
  /\ \/ /\ cache' = IF GetBatchSize(wk[w].comp) # 0
                     THEN cache \cup {wk[w].comp[i].node : i \in 1..Len(wk[w].comp)}
                     ELSE cache
        /\ wk' = [wk EXCEPT ![w].pc = "backup", ![w].comp = <<>>,
                             ![w].ntp = FetchNNResults(@, wk[w].comp)]
        /\ UNCHANGED <<crashed, obs>>
     \/ /\ GetBatchSize(wk[w].comp) # 0
        /\ crashed' = TRUE
        /\ obs' = [obs EXCEPT !.nn_failed = TRUE]
        /\ UNCHANGED <<cache, wk>>
     \/ /\ FetchReadsPastBatch(wk[w].ntp, wk[w].comp)
        /\ crashed' = TRUE
        /\ UNCHANGED <<cache, wk, obs>>
  /\ UNCHANGED <<outside, config, tree, search, iters, now, host, events>>


(***************************************************************************)
(* 6. DoBackupUpdate, on a record T of the fields it writes:               *)
(* N, nif (n_in_flight), md (max_depth), fd (full_depth), bmn              *)
(* (best_move_node_) and tp (total_playouts_).                             *)
(***************************************************************************)
\* A collision: CancelScoreUpdate from node n up to the root (lines 838-841).
RECURSIVE CancelPath(_, _)
CancelPath(T, n) ==
  IF n = Parent(Root) THEN T
  ELSE CancelPath([T EXCEPT !.nif[n] = @ - 1], Parent(n))

\* FinalizeScoreUpdate: one more completed visit, one less in flight.
FinalizeScoreUpdate(T, n) == [T EXCEPT !.N[n] = @ + 1, !.nif[n] = @ - 1]

\* The loop of lines 853-874, from node n upwards.
RECURSIVE FinalizePath(_, _, _, _, _)
FinalizePath(T, n, depth, cur_full_depth, full_depth_updated) ==
  IF n = Parent(Root) THEN T
  ELSE LET d1 == depth + 1
           T1 == FinalizeScoreUpdate(T, n)
           T2 == [T1 EXCEPT !.md[n] = Max(@, d1)]
           u  == IF full_depth_updated
                 THEN UpdateFullDepth(T2, n, cur_full_depth)
                 ELSE [T |-> T2, d |-> cur_full_depth, ok |-> FALSE]
           T3 == IF /\ Parent(n) = Root
                    /\ (u.T.bmn = NoNode \/ u.T.N[u.T.bmn] < u.T.N[n])
                 THEN [u.T EXCEPT !.bmn = n]
                 ELSE u.T
       IN FinalizePath(T3, Parent(n), d1, u.d, u.ok)

\* The body of the loop over nodes_to_process_ for one entry.
BackupOne(T, e) ==
  IF e.is_collision
  THEN CancelPath(T, Parent(e.node))
  ELSE LET T1 == FinalizePath(T, e.node, 0,
                              IF IsTerminal(e.node) THEN 999 ELSE 0, TRUE)
       IN [T1 EXCEPT !.tp = @ + 1]

RECURSIVE BackupAll(_, _, _)
BackupAll(T, ntp, i) ==
  IF i > Len(ntp) THEN T
  ELSE BackupAll(BackupOne(T, ntp[i]), ntp, i + 1)

DoBackupUpdate(w) ==
  /\ ~crashed
  /\ wk[w].pc = "backup"
  /\ LET T0 == [N |-> n_, nif |-> n_in_flight, md |-> max_depth,
                fd |-> full_depth, bmn |-> best_move_node,
                tp |-> total_playouts]
         T == BackupAll(T0, wk[w].ntp, 1)
     IN /\ n_' = T.N
        /\ n_in_flight' = T.nif
        /\ max_depth' = T.md
        /\ full_depth' = T.fd
        /\ best_move_node' = T.bmn
        /\ total_playouts' = T.tp
  /\ wk' = [wk EXCEPT ![w].pc = "remaining"]
  /\ UNCHANGED <<outside, config, children, terminal, stop, responded_bestmove,
                 remaining_playouts, found_best_move, best_move,
                 last_outputted_best_move_node, uci_info,
                 cache, iters, now, host, crashed, events, obs>>

(***************************************************************************)
(* 7. UpdateCounters: UpdateRemainingMoves, MaybeOutputInfo,               *)
(* MaybeTriggerStop.                                                       *)
(***************************************************************************)
GetTimeSinceStart == now

\* The bound UpdateRemainingMoves computes in its playouts branch (lines
\* 293-294).
PlayoutsBound == limits.visits - total_playouts + kMiniBatchSize + 1

\* What UpdateRemainingMoves has in remaining_playouts_ when it reaches the
\* playouts branch (lines 265-288).
RemainingBeforePlayouts ==
  LET r0 == IntMax
      r1 == IF limits.time_ms >= 0 /\ GetTimeSinceStart > kSmartPruningToleranceMs
            THEN LET nps == ((1000 * total_playouts + kSmartPruningToleranceNodes)
                             \div (GetTimeSinceStart - kSmartPruningToleranceMs)) + 1
                     remaining_time == limits.time_ms - GetTimeSinceStart
                     remaining == TruncDiv(remaining_time * nps, 1000)
                 IN IF remaining < r0 THEN remaining ELSE r0
            ELSE r0
      r2 == IF limits.visits >= 0
            THEN LET remaining_visits == limits.visits - total_playouts
                                         - initial_visits + kMiniBatchSize - 1
                 IN IF remaining_visits < r1 THEN remaining_visits ELSE r1
            ELSE r1
  IN r2

\* The value UpdateRemainingMoves leaves in remaining_playouts_ (lines 265-299).
RemainingPlayouts ==
  LET r2 == RemainingBeforePlayouts
      r3 == IF limits.playouts >= 0
            THEN IF PlayoutsBound < r2 THEN PlayoutsBound ELSE r2
            ELSE r2
  IN IF r3 <= 1 THEN 1 ELSE r3

UpdateRemainingMoves(w) ==
  /\ ~crashed
  /\ wk[w].pc = "remaining"
  /\ remaining_playouts' = IF kSmartPruning THEN RemainingPlayouts
                           ELSE remaining_playouts
  /\ wk' = [wk EXCEPT ![w].pc = "info"]
  /\ UNCHANGED <<outside, config, tree, stop, responded_bestmove, total_playouts,
                 found_best_move, best_move_node, best_move,
                 last_outputted_best_move_node, uci_info,
                 cache, iters, now, host, crashed, events, obs>>

\* SendUciInfo (lines 142-163): nothing without a best-move node.
SendUciInfo ==
  IF best_move_node = NoNode
  THEN UNCHANGED <<last_outputted_best_move_node, uci_info, info_events>>
  ELSE /\ last_outputted_best_move_node' = best_move_node
       /\ uci_info' = [depth |-> full_depth[Root], seldepth |-> max_depth[Root],
                       time |-> GetTimeSinceStart]
       /\ info_events' = info_events + 1

\* A test that lets the info through when exactly the minimum time has passed.
InfoIsDue_AtMinimum ==
  /\ ~responded_bestmove
  /\ best_move_node # NoNode
  /\ \/ best_move_node # last_outputted_best_move_node
     \/ uci_info.depth # full_depth[Root]
     \/ uci_info.seldepth # max_depth[Root]
     \/ uci_info.time + kUciInfoMinimumFrequencyMs <= GetTimeSinceStart

\* A test that does not look at responded_bestmove_.
InfoIsDue_AfterBestMove ==
  /\ best_move_node # NoNode
  /\ \/ best_move_node # last_outputted_best_move_node
     \/ uci_info.depth # full_depth[Root]
     \/ uci_info.seldepth # max_depth[Root]
     \/ uci_info.time + kUciInfoMinimumFrequencyMs < GetTimeSinceStart

\* The test of MaybeOutputInfo (lines 170-174).
InfoIsDue ==
  /\ ~responded_bestmove
  /\ best_move_node # NoNode
  /\ \/ best_move_node # last_outputted_best_move_node
     \/ uci_info.depth # full_depth[Root]
     \/ uci_info.seldepth # max_depth[Root]
     \/ uci_info.time + kUciInfoMinimumFrequencyMs < GetTimeSinceStart

MaybeOutputInfo(w) ==
  /\ ~crashed
  /\ wk[w].pc = "info"
  /\ IF InfoIsDue THEN SendUciInfo
     ELSE UNCHANGED <<last_outputted_best_move_node, uci_info, info_events>>
  /\ wk' = [wk EXCEPT ![w].pc = "trigger"]
  /\ UNCHANGED <<outside, config, tree, stop, responded_bestmove, total_playouts,
                 remaining_playouts, found_best_move, best_move_node, best_move,
                 cache, iters, now, host, crashed, bestmove_events,
                 bestmove_sent, obs>>

\* The outcome of dereferencing the null pointer GetBestChildNoTemperature
\* returns when no root child passes the searchmoves filter.
Crash == 100

\* GetBestMoveInternal without the test of line 324.
GetBestMoveInternal_NoChildrenTest ==
  IF responded_bestmove THEN {best_move}
  ELSE LET listed == {c \in children[Root] : ~NotInSearchMoves(c)}
       IN IF listed = {} THEN {GarbageMove, Crash}
          ELSE {c \in listed : \A d \in listed : n_[d] <= n_[c]}

\* GetBestMoveInternal (lines 321-344) without temperature: the moves it may
\* return.  Ties in N are broken by Q and P, which the model leaves open.
GetBestMoveInternal ==
  IF responded_bestmove THEN {best_move}
  ELSE IF ~HasChildren(Root) THEN {NullMove}
  ELSE LET listed == {c \in children[Root] : ~NotInSearchMoves(c)}
       IN IF listed = {} THEN {GarbageMove, Crash}
          ELSE {c \in listed : \A d \in listed : n_[d] <= n_[c]}

\* The visits limit compared without the visits of the reused tree.
ShouldStop_NoInitialVisits ==
  \/ found_best_move
  \/ limits.playouts >= 0 /\ total_playouts >= limits.playouts
  \/ limits.visits >= 0 /\ total_playouts >= limits.visits
  \/ limits.time_ms >= 0 /\ GetTimeSinceStart >= limits.time_ms

\* The four reasons of MaybeTriggerStop to stop (lines 235-250).
ShouldStop ==
  \/ found_best_move
  \/ limits.playouts >= 0 /\ total_playouts >= limits.playouts
  \/ limits.visits >= 0 /\ total_playouts + initial_visits >= limits.visits
  \/ limits.time_ms >= 0 /\ GetTimeSinceStart >= limits.time_ms

\* A MaybeTriggerStop without the early return.
RootNotYetExpanded_Ignored == FALSE

\* Line 233: nothing is done while the root is not yet expanded.
RootNotYetExpanded == total_playouts = 0

\* Every caller that sees stop responds.
FirstToSeeStop_Everyone(stopped) == stopped

\* Line 252: this caller is the first to see that stop is needed.
FirstToSeeStop(stopped) == stopped /\ ~responded_bestmove

MaybeTriggerStop(w) ==
  /\ ~crashed
  /\ wk[w].pc = "trigger"
  /\ IF RootNotYetExpanded
     THEN /\ wk' = [wk EXCEPT ![w] = [WorkerIdle EXCEPT !.pc = "loop"]]
          /\ obs' = [obs EXCEPT !.skipped = TRUE]
          /\ UNCHANGED <<stop, responded_bestmove, best_move_node, best_move,
                         last_outputted_best_move_node, uci_info, events, crashed>>
     ELSE /\ stop' = (stop \/ ShouldStop)
          /\ UNCHANGED obs
          /\ IF FirstToSeeStop(stop')
             THEN /\ SendUciInfo
                  /\ \E m \in GetBestMoveInternal :
                       IF m = Crash
                       THEN /\ crashed' = TRUE
                            /\ UNCHANGED <<wk, responded_bestmove, best_move_node,
                                           best_move, bestmove_events, bestmove_sent>>
                       ELSE /\ best_move' = m
                            /\ bestmove_events' = bestmove_events + 1
                            /\ bestmove_sent' = m
                            /\ responded_bestmove' = TRUE
                            /\ best_move_node' = NoNode
                            /\ wk' = [wk EXCEPT ![w] = [WorkerIdle EXCEPT !.pc = "loop"]]
                            /\ UNCHANGED crashed
             ELSE /\ wk' = [wk EXCEPT ![w] = [WorkerIdle EXCEPT !.pc = "loop"]]
                  /\ UNCHANGED <<responded_bestmove, best_move_node, best_move,
                                 last_outputted_best_move_node, uci_info, events,
                                 crashed>>
  /\ UNCHANGED <<outside, config, tree, total_playouts, remaining_playouts,
                 found_best_move, cache, iters, now, host>>

(***************************************************************************)
(* The host thread.                                                        *)
(***************************************************************************)
StartThreads ==
  /\ ~crashed
  /\ host = "new"
  /\ \E how_many \in 1..MaxThreads :
       wk' = [w \in Workers |-> IF w <= how_many
                                THEN [WorkerIdle EXCEPT !.pc = "loop"]
                                ELSE WorkerIdle]
  /\ host' = "running"
  /\ UNCHANGED <<outside, config, tree, search, cache, iters, now, crashed, events, obs>>

Stop ==
  /\ ~crashed
  /\ host = "running"
  /\ ~obs.stop_called /\ ~obs.aborted
  /\ stop' = TRUE
  /\ obs' = [obs EXCEPT !.stop_called = TRUE,
                        !.stop_at_zero = (total_playouts = 0)]
  /\ UNCHANGED <<outside, config, tree, responded_bestmove, total_playouts,
                 remaining_playouts, found_best_move, best_move_node, best_move,
                 last_outputted_best_move_node, uci_info,
                 cache, wk, iters, now, host, crashed, events>>

\* An Abort that only sets the stop flag.
Abort_OnlyStops ==
  /\ ~crashed
  /\ host = "running"
  /\ ~obs.stop_called /\ ~obs.aborted
  /\ stop' = TRUE
  /\ obs' = [obs EXCEPT !.aborted = TRUE]
  /\ UNCHANGED <<outside, config, tree, responded_bestmove, total_playouts,
                 remaining_playouts, found_best_move, best_move_node, best_move,
                 last_outputted_best_move_node, uci_info,
                 cache, wk, iters, now, host, crashed, events>>

\* The engine aborts a search it has not stopped (~Search, lines 448-451).
Abort ==
  /\ ~crashed
  /\ host = "running"
  /\ ~obs.stop_called /\ ~obs.aborted
  /\ responded_bestmove' = TRUE
  /\ stop' = TRUE
  /\ obs' = [obs EXCEPT !.aborted = TRUE]
  /\ UNCHANGED <<outside, config, tree, total_playouts,
                 remaining_playouts, found_best_move, best_move_node, best_move,
                 last_outputted_best_move_node, uci_info,
                 cache, wk, iters, now, host, crashed, events>>

\* GetBestMove (lines 314-318) changes nothing, unless it dereferences the null
\* pointer and the process dies.
GetBestMove ==
  /\ ~crashed
  /\ host = "running"
  /\ crashed' = (Crash \in GetBestMoveInternal)
  /\ UNCHANGED <<outside, config, tree, search, cache, wk, iters, now, host, events, obs>>

\* Wait returns when every worker thread has been joined.
Wait ==
  /\ ~crashed
  /\ host = "running"
  /\ \A w \in Workers : wk[w].pc \in {"none", "done"}
  /\ host' = "joined"
  /\ UNCHANGED <<outside, config, tree, search, cache, wk, iters, now, crashed, events, obs>>

\* Time passes.
Tick ==
  /\ ~crashed
  /\ host = "running"
  /\ now < MaxTicks * TimeStep
  /\ now' = now + TimeStep
  /\ UNCHANGED <<outside, config, tree, search, cache, wk, iters, host, crashed, events, obs>>

\* The locks a worker holds where the step it takes at pc writes shared
\* state: nodes_mutex_ in exclusive or shared mode, counters_mutex_.
\*   start      lines 553-554   SharedMutex::Lock on nodes_mutex_
\*   select     lines 563, 607  SharedLock on nodes_mutex_, counters_mutex_
\*   extend     lines 617-618   none ("We don't need the mutex")
\*   compute    lines 787-827   none
\*   backup     line 833        SharedMutex::Lock on nodes_mutex_
\*   remaining  line 264        SharedMutex::Lock on nodes_mutex_
\*   info       lines 168-169   both
\*   trigger    lines 230-231   both
LocksHeldWriting(pc) ==
  CASE pc = "start" -> {"nodes_exclusive"}
    [] pc = "select" -> {"nodes_shared", "counters"}
    [] pc = "backup" -> {"nodes_exclusive"}
    [] pc = "remaining" -> {"nodes_exclusive"}
    [] pc = "info" -> {"nodes_exclusive", "counters"}
    [] pc = "trigger" -> {"nodes_exclusive", "counters"}
    [] OTHER -> {}

WorkerStep(w) ==
  \/ RunBlocking(w)
  \/ GatherMinibatch(w)
  \/ PickNodeToExtend(w)
  \/ PickChild(w)
  \/ ExtendNode(w)
  \/ MaybePrefetchIntoCache(w)
  \/ RunNNComputation(w)
  \/ DoBackupUpdate(w)
  \/ UpdateRemainingMoves(w)
  \/ MaybeOutputInfo(w)
  \/ MaybeTriggerStop(w)

Next ==
  \/ \E w \in Workers : RunBlocking(w)
  \/ \E w \in Workers : GatherMinibatch(w)
  \/ \E w \in Workers : PickNodeToExtend(w)
  \/ \E w \in Workers : PickChild(w)
  \/ \E w \in Workers : ExtendNode(w)
  \/ \E w \in Workers : MaybePrefetchIntoCache(w)
  \/ \E w \in Workers : RunNNComputation(w)
  \/ \E w \in Workers : DoBackupUpdate(w)
  \/ \E w \in Workers : UpdateRemainingMoves(w)
  \/ \E w \in Workers : MaybeOutputInfo(w)
  \/ \E w \in Workers : MaybeTriggerStop(w)
  \/ StartThreads
  \/ Stop
  \/ Abort
  \/ GetBestMove
  \/ Wait
  \/ Tick

Spec == Init /\ [][Next]_vars

\* Threads are scheduled fairly: a worker that can take a step takes one.
FairSpec == Spec /\ \A w \in Workers : WF_vars(WorkerStep(w))

(***************************************************************************)
(* The time manager: EngineController::PopulateSearchLimits (engine.cc).   *)
(* Times are in ms.  The float this_move_time is kept in tenths of a ms,   *)
(* slowmover in hundredths.  ComputeMoveWeight (cosh, pow) is not          *)
(* computed: the weight of this move and the sum of the weights of the     *)
(* other moves are inputs, in thousandths; both are floats in [0, 1] per   *)
(* move and may underflow to 0.                                            *)
(***************************************************************************)
\* What static_cast<int64_t> may yield for a NaN: any value.
CastOfNaN == {-IntMax, 0, IntMax}

\* Lines 116-118.
MovesToGo(params) ==
  IF params.movestogo < 0 THEN 50
  ELSE IF params.movestogo = 0 THEN 1 ELSE params.movestogo

\* Lines 128-130.
TotalMovesTime(time, increment, movestogo, move_overhead) ==
  Max(0, time + increment * (movestogo - 1) - move_overhead * movestogo)

\* Lines 146-149, on this_move_time in tenths of a ms.
ScaleBySlowMover(this_move_time, slowmover) ==
  IF slowmover < 100 \/ this_move_time * slowmover > kSmartPruningToleranceMs * 1000
  THEN (this_move_time * slowmover) \div 100
  ELSE this_move_time

\* Lines 141-149 and the cast of line 154: the values
\* static_cast<int64_t>(this_move_time) may have.
ThisMoveTime(total_moves_time, this_move_weight, other_move_weights, slowmover) ==
  IF this_move_weight + other_move_weights = 0
  THEN CastOfNaN
  ELSE {ScaleBySlowMover((total_moves_time * 10 * this_move_weight)
                           \div (this_move_weight + other_move_weights),
                         slowmover) \div 10}

\* A clamp without the upper bound.
ClampMoveTime_NoUpperBound(this_move_time, time, move_overhead) ==
  Max(0, this_move_time)

\* Lines 152-154.
ClampMoveTime(this_move_time, time, move_overhead) ==
  Max(0, IF this_move_time <= time - move_overhead
         THEN this_move_time ELSE time - move_overhead)

\* PopulateSearchLimits (lines 100-156): the limits it may return for the
\* call c.
PopulateSearchLimits(c) ==
  LET params == c.params
      time == IF c.is_black THEN params.btime ELSE params.wtime
      limits0 == [visits |-> params.nodes, playouts |-> -1,
                  time_ms |-> params.movetime, infinite |-> params.infinite,
                  searchmoves |-> params.searchmoves]
  IN IF params.infinite \/ time < 0 THEN {limits0}
     ELSE LET increment == Max(0, IF c.is_black THEN params.binc ELSE params.winc)
              movestogo == MovesToGo(params)
              total_moves_time ==
                TotalMovesTime(time, increment, movestogo, c.move_overhead)
              other_move_weights ==
                IF movestogo > 1 THEN c.other_move_weights ELSE 0
          IN {[limits0 EXCEPT !.time_ms = ClampMoveTime(t, time, c.move_overhead)] :
                t \in ThisMoveTime(total_moves_time, c.this_move_weight,
                                   other_move_weights, c.slowmover)}

\* The go commands and option values studied.
GoParams ==
  [nodes : {-1}, movetime : {-1, 0, 1000},
   wtime : {-1, 0, 50, 100, 60000}, btime : {-1, 3000},
   winc : {-5, 0, 1000}, binc : {0},
   movestogo : {-1, 0, 1, 40}, infinite : BOOLEAN, searchmoves : {{}}]

LimitsCalls ==
  [fn : {"PopulateSearchLimits"}, is_black : BOOLEAN, params : GoParams,
   slowmover : {50, 100, 193}, move_overhead : {0, 100},
   this_move_weight : {0, 1, 1000}, other_move_weights : {0, 20000}]

CallPopulateSearchLimits ==
  /\ call.fn = "PopulateSearchLimits"
  /\ ret = NoCall
  /\ \E l \in PopulateSearchLimits(call) :
       ret' = [fn |-> "PopulateSearchLimits", limits |-> l]
  /\ UNCHANGED <<call, engine_, loop, stream, sync, config, tree, search, cache, wk, iters,
                 now, host, crashed, events, obs>>

(***************************************************************************)
(* The choice of the best child of the root (search.cc 321-403), on the    *)
(* children of the root as a sequence of records: n (visits), q and p (Q   *)
(* and P, as integers), listed (the child passes the searchmoves filter).  *)
(* A child is named by its index; 0 is the null pointer.                   *)
(***************************************************************************)
\* Node::GetQ(default_q): the default for a node without visits.
GetQ(kid, default_q) == IF kid.n = 0 THEN default_q ELSE kid.q

\* A comparison that looks at the visits only.
TupleGreater_VisitsOnly(a, b) == a[1] > b[1]

\* operator> of std::tuple<int, float, float> (line 363).
TupleGreater(a, b) ==
  \/ a[1] > b[1]
  \/ a[1] = b[1] /\ a[2] > b[2]
  \/ a[1] = b[1] /\ a[2] = b[2] /\ a[3] > b[3]

\* The loop of GetBestChildNoTemperature (lines 355-367) from child i on.
RECURSIVE ScanBestChild(_, _, _, _)
ScanBestChild(kids, i, best, best_node) ==
  IF i > Len(kids) THEN best_node
  ELSE IF ~kids[i].listed THEN ScanBestChild(kids, i + 1, best, best_node)
  ELSE LET val == <<kids[i].n, GetQ(kids[i], -10), kids[i].p>>
       IN IF TupleGreater(val, best)
          THEN ScanBestChild(kids, i + 1, val, i)
          ELSE ScanBestChild(kids, i + 1, best, best_node)

\* GetBestChildNoTemperature (lines 347-369).
GetBestChildNoTemperature(kids) == ScanBestChild(kids, 1, <<-1, 0, 0>>, 0)

\* The effective temperature (lines 325-335), in thousandths.
EffectiveTemperature(kTemperature, kTempDecayMoves, ply) ==
  IF kTemperature # 0 /\ kTempDecayMoves # 0
  THEN LET moves == ply \div 2
       IN IF moves >= kTempDecayMoves THEN 0
          ELSE (kTemperature * (kTempDecayMoves - moves)) \div kTempDecayMoves
  ELSE kTemperature

\* N of the root: its own first visit and the visits of its children.
RECURSIVE ChildrenVisits(_, _)
ChildrenVisits(kids, i) ==
  IF i > Len(kids) THEN 0 ELSE kids[i].n + ChildrenVisits(kids, i + 1)

\* The children GetBestChildWithTemperature does not skip (lines 379-383 and
\* 394-398), in the order of Children().
RECURSIVE ListedKids(_, _)
ListedKids(kids, i) ==
  IF i > Len(kids) THEN <<>>
  ELSE (IF kids[i].listed THEN <<i>> ELSE <<>>) \o ListedKids(kids, i + 1)

\* std::pow(N / n_parent, 1 / temperature) of line 384, for the temperatures
\* 1 and 1/2, in units of 1 / (2 * n_parent^2): the weights are even, so an
\* odd toss lies strictly inside an interval.
TemperatureWeight(n, n_parent, temperature) ==
  IF temperature = 1000 THEN 2 * n * n_parent ELSE 2 * n * n

\* cumulative_sums (lines 378-386) over the listed children.
RECURSIVE CumulativeSums(_, _, _, _, _)
CumulativeSums(kids, listed, n_parent, temperature, k) ==
  IF k = 0 THEN <<>>
  ELSE LET before == CumulativeSums(kids, listed, n_parent, temperature, k - 1)
           sum == IF k = 1 THEN 0 ELSE before[k - 1]
       IN Append(before, sum + TemperatureWeight(kids[listed[k]].n, n_parent,
                                                 temperature))

\* std::lower_bound (lines 389-391): the index, from 0, of the first sum that
\* is not less than toss.
LowerBound(sums, toss) == Cardinality({k \in 1..Len(sums) : sums[k] < toss})

\* The tosses studied of Random::Get().GetFloat(back), which lie in
\* [0, back): 0, every cumulative sum and the point just below it.
Tosses(sums) ==
  {0} \cup {t \in {sums[k] : k \in 1..Len(sums)}
                 \cup {sums[k] - 1 : k \in 1..Len(sums)} :
              t >= 0 /\ t < sums[Len(sums)]}

\* The child GetBestChildWithTemperature returns for a toss (lines 388-400).
ChildAtToss(kids, n_parent, temperature, toss) ==
  LET listed == ListedKids(kids, 1)
      sums == CumulativeSums(kids, listed, n_parent, temperature, Len(listed))
  IN listed[LowerBound(sums, toss) + 1]

\* GetBestChildWithTemperature (lines 372-403): the children it may return.
\* Without a listed child cumulative_sums.back() is undefined: the null
\* pointer or any child.
GetBestChildWithTemperature(kids, n_parent, temperature) ==
  LET listed == ListedKids(kids, 1)
      sums == CumulativeSums(kids, listed, n_parent, temperature, Len(listed))
  IN IF listed = <<>> THEN 0..Len(kids)
     ELSE {ChildAtToss(kids, n_parent, temperature, toss) : toss \in Tosses(sums)}

\* Line 337: whether the choice is made with temperature.
WithTemperature(c) ==
  /\ EffectiveTemperature(c.kTemperature, c.kTempDecayMoves, c.ply) # 0
  /\ 1 + ChildrenVisits(c.kids, 1) > 1

\* Lines 337-339: the nodes best_node may be.
BestNode(c) ==
  IF WithTemperature(c)
  THEN GetBestChildWithTemperature(
         c.kids, 1 + ChildrenVisits(c.kids, 1),
         EffectiveTemperature(c.kTemperature, c.kTempDecayMoves, c.ply))
  ELSE {GetBestChildNoTemperature(c.kids)}

\* The tosses GetBestChildWithTemperature may draw in the call c; NoToss when
\* it draws none.
NoToss == -1
TossesOf(c) ==
  LET listed == ListedKids(c.kids, 1)
      sums == CumulativeSums(c.kids, listed, 1 + ChildrenVisits(c.kids, 1),
                EffectiveTemperature(c.kTemperature, c.kTempDecayMoves, c.ply),
                Len(listed))
  IN IF WithTemperature(c) /\ listed # <<>> THEN Tosses(sums) ELSE {NoToss}
\* best_node of the call c when the toss is `toss`.
BestNodeAt(c, toss) ==
  IF toss = NoToss THEN BestNode(c)
  ELSE {ChildAtToss(c.kids, 1 + ChildrenVisits(c.kids, 1),
                    EffectiveTemperature(c.kTemperature, c.kTempDecayMoves, c.ply),
                    toss)}

\* The roots studied: up to MaxKids children.
MaxKids == 3
Kid == [n : 0..2, q : {-1, 1}, p : {1, 2}, listed : BOOLEAN]
KidSeqs == UNION {[1..k -> Kid] : k \in 1..MaxKids}

BestCalls ==
  [fn : {"BestNode"}, kids : KidSeqs, kTemperature : {0, 1000},
   kTempDecayMoves : {0, 2}, ply : {2, 6}]

CallBestNode ==
  /\ call.fn = "BestNode"
  /\ ret = NoCall
  /\ \E toss \in TossesOf(call) :
       \E b \in BestNodeAt(call, toss) :
         ret' = [fn |-> "BestNode", node |-> b, toss |-> toss]
  /\ UNCHANGED <<call, engine_, loop, stream, sync, config, tree, search, cache, wk, iters,
                 now, host, crashed, events, obs>>

(***************************************************************************)
(* The functions on their own: each is applied once to one input.          *)
(***************************************************************************)
FnInit ==
  /\ \/ call \in LimitsCalls
     \/ call \in BestCalls
  /\ ret = NoCall
  /\ EngineConstructed
  /\ stream = NoStream
  /\ sync = NoSync
  /\ SearchConstructed({Go({1, 2}, FALSE, FALSE, -1, -1, -1, TRUE, {})})

FnNext ==
  \/ CallPopulateSearchLimits
  \/ CallBestNode

FnSpec == FnInit /\ [][FnNext]_vars

(***************************************************************************)
(* The engine controller (engine.cc 158-232) and the thread of the UCI     *)
(* loop that runs its handlers (257-295).  The search a go creates is kept *)
(* as a record: the network it was given, its initial_visits_, its         *)
(* total_playouts_, its stop_ flag and where its worker thread is ("none": *)
(* not running, "loop":                                                    *)
(* between iterations, "iteration": inside ExecuteOneIteration).  The      *)
(* engine runs with one worker thread (option threads = 1).  The tree is   *)
(* kept as the visits of its root.  A handler is a sequence of steps; the  *)
(* worker runs between them.                                               *)
(***************************************************************************)
\* Most visits the root of the engine's tree gets.
MaxRootVisits == 2
\* The position hashes a worker may store in the cache.
MaxHashes == 2
Hashes == 1..MaxHashes

\* The network NetworkFactory creates from option values.
NetworkOf(o) ==
  [weights |-> o.weights, backend |-> o.backend, backend_opts |-> o.backend_opts]

\* UpdateNetwork (lines 158-182) on the controller e: the controller after it
\* and whether it threw.
UpdateNetwork(e) ==
  LET o == e.options_
      recorded == [e EXCEPT !.network_path_ = o.weights,
                            !.backend_ = o.backend,
                            !.backend_options_ = o.backend_opts]
  IN IF /\ o.weights = e.network_path_
        /\ o.backend = e.backend_
        /\ o.backend_opts = e.backend_options_
     THEN [engine |-> e, threw |-> FALSE]
     ELSE IF ~LoadWeightsFromFile(o.weights) \/ ~Create(o.backend, o.backend_opts)
     THEN [engine |-> recorded, threw |-> TRUE]
     ELSE [engine |-> [recorded EXCEPT !.network_ = NetworkOf(o)],
           threw |-> FALSE]

\* The first half of Search::~Search (line 449) when search_ is reset or
\* replaced: Abort sets stop_.
AbortSearch(e) ==
  IF e.search_ = NullPtr THEN e ELSE [e EXCEPT !.search_.stop = TRUE]
\* A Wait that returns without joining.
Joined_WithoutJoin(e) == TRUE
\* Search::Wait (lines 440-446) returns: the worker thread has been joined.
Joined(e) == IF e.search_ = NullPtr THEN TRUE ELSE e.search_.worker = "none"

\* What the engine's handlers leave alone: the Search object studied above.
EngineFrame ==
  UNCHANGED <<call, ret, stream, sync, config, tree, search, cache, wk, iters, now,
              host, events, obs>>
\* The loop thread enters handler fn at line at.
Dispatch(fn, at) ==
  /\ ~crashed
  /\ loop.fn = "idle"
  /\ loop' = [fn |-> fn, at |-> at, threw |-> FALSE, made |-> NullPtr]
  /\ UNCHANGED <<engine_, crashed>>
  /\ EngineFrame
\* The handler returns, or an exception leaves it.
Return(threw) == loop' = [LoopIdle EXCEPT !.threw = threw]

\* CmdSetOption (lines 262-268): the option gets its value; nothing is applied.
CmdSetOption ==
  /\ ~crashed
  /\ loop.fn = "idle"
  /\ \/ \E v \in WeightsFiles : engine_' = [engine_ EXCEPT !.options_.weights = v]
     \/ \E v \in Backends : engine_' = [engine_ EXCEPT !.options_.backend = v]
     \/ \E v \in BackendOptions :
          engine_' = [engine_ EXCEPT !.options_.backend_opts = v]
  /\ engine_' # engine_
  /\ Return(FALSE)
  /\ UNCHANGED crashed
  /\ EngineFrame

\* CmdIsReady (lines 257-260) and EnsureReady (186-189).
CmdIsReady == Dispatch("EnsureReady", 187)
EnsureReady ==
  /\ loop.fn = "EnsureReady"
  /\ LET r == UpdateNetwork(engine_)
     IN /\ engine_' = r.engine
        /\ Return(r.threw)
  /\ UNCHANGED crashed
  /\ EngineFrame

\* CmdUciNewGame (lines 277-280) and NewGame (191-197).
CmdUciNewGame == Dispatch("NewGame", 193)
\* Line 193.
NewGameClear ==
  /\ loop.fn = "NewGame" /\ loop.at = 193
  /\ engine_' = [engine_ EXCEPT !.cache_ = {}]
  /\ loop' = [loop EXCEPT !.at = 194]
  /\ UNCHANGED crashed
  /\ EngineFrame
\* Line 194, up to the Abort of the destructor.
NewGameAbort ==
  /\ loop.fn = "NewGame" /\ loop.at = 194
  /\ engine_' = AbortSearch(engine_)
  /\ loop' = [loop EXCEPT !.at = 450]
  /\ UNCHANGED crashed
  /\ EngineFrame
\* The Wait of the destructor returns; lines 195-196.
NewGameFinish ==
  /\ loop.fn = "NewGame" /\ loop.at = 450
  /\ Joined(engine_)
  /\ LET r == UpdateNetwork([engine_ EXCEPT !.search_ = NullPtr,
                                            !.tree_ = NullPtr])
     IN /\ engine_' = r.engine
        /\ Return(r.threw)
  /\ UNCHANGED crashed
  /\ EngineFrame

\* NodeTree::ResetToPosition on a tree: the new root is a node of the old tree
\* kept with its visits, or a new node.
ResetToPosition(t) == {[n |-> k] : k \in 0..t.n}
\* SetPosition from line 203 on, the search having been reset: the
\* controllers it may leave, each with whether UpdateNetwork threw.
SetPositionFrom203(e) ==
  LET t == IF e.tree_ = NullPtr THEN [n |-> 0] ELSE e.tree_
  IN {UpdateNetwork([e EXCEPT !.search_ = NullPtr, !.tree_ = t2]) :
        t2 \in ResetToPosition(t)}

\* CmdPosition (lines 282-288) and SetPosition (199-210).
CmdPosition == Dispatch("SetPosition", 201)
\* Line 201, up to the Abort of the destructor.
SetPositionAbort ==
  /\ loop.fn = "SetPosition" /\ loop.at = 201
  /\ engine_' = AbortSearch(engine_)
  /\ loop' = [loop EXCEPT !.at = 450]
  /\ UNCHANGED crashed
  /\ EngineFrame
\* The Wait of the destructor returns; lines 203-209.
SetPositionFinish ==
  /\ loop.fn = "SetPosition" /\ loop.at = 450
  /\ Joined(engine_)
  /\ \E r \in SetPositionFrom203(engine_) :
       /\ engine_' = r.engine
       /\ Return(r.threw)
  /\ UNCHANGED crashed
  /\ EngineFrame

\* The Search that line 219 constructs on the controller e.
MakeSearch(e) ==
  [network |-> e.network_, initial_visits |-> e.tree_.n, total_playouts |-> 0,
   stop |-> FALSE, worker |-> "none"]

\* CmdGo (lines 290-293) and Go (212-225).
CmdGo == Dispatch("Go", 213)
\* Lines 213-221: SetPosition if there is no tree (no search exists then), the
\* new Search constructed, and, as it is assigned to search_, the destructor
\* of the previous one up to its Abort.
GoMakeSearch ==
  /\ loop.fn = "Go" /\ loop.at = 213
  /\ \E r \in IF engine_.tree_ = NullPtr
              THEN SetPositionFrom203(engine_)
              ELSE {[engine |-> engine_, threw |-> FALSE]} :
       IF r.threw
       THEN /\ engine_' = r.engine
            /\ Return(TRUE)
       ELSE /\ engine_' = AbortSearch(r.engine)
            /\ loop' = [loop EXCEPT !.at = 450, !.made = MakeSearch(r.engine)]
  /\ UNCHANGED crashed
  /\ EngineFrame
\* The Wait of the previous search's destructor returns; line 224.
GoStartThreads ==
  /\ loop.fn = "Go" /\ loop.at = 450
  /\ Joined(engine_)
  /\ engine_' = [engine_ EXCEPT !.search_ = [loop.made EXCEPT !.worker = "loop"]]
  /\ Return(FALSE)
  /\ UNCHANGED crashed
  /\ EngineFrame

\* CmdStop (line 295) and Stop (227-232).
CmdStop == Dispatch("Stop", 228)
\* Lines 228-229.
StopSearch ==
  /\ loop.fn = "Stop" /\ loop.at = 228
  /\ IF engine_.search_ = NullPtr
     THEN /\ Return(FALSE)
          /\ UNCHANGED engine_
     ELSE /\ engine_' = [engine_ EXCEPT !.search_.stop = TRUE]
          /\ loop' = [loop EXCEPT !.at = 230]
  /\ UNCHANGED crashed
  /\ EngineFrame
\* Line 230.
StopWait ==
  /\ loop.fn = "Stop" /\ loop.at = 230
  /\ Joined(engine_)
  /\ Return(FALSE)
  /\ UNCHANGED <<engine_, crashed>>
  /\ EngineFrame

\* The worker thread of search_ begins an iteration (line 459): it asks the
\* network the search was given for a computation.
WorkerBeginIteration ==
  /\ ~crashed
  /\ engine_.search_ # NullPtr
  /\ engine_.search_.worker = "loop"
  /\ ~engine_.search_.stop
  /\ IF engine_.search_.network = NullPtr
     THEN /\ crashed' = TRUE
          /\ UNCHANGED engine_
     ELSE /\ engine_' = [engine_ EXCEPT !.search_.worker = "iteration"]
          /\ UNCHANGED crashed
  /\ UNCHANGED loop
  /\ EngineFrame
\* The rest of the iteration: ComputeBlocking stores the result in the cache
\* the engine gave the search (line 790), and the backup counts a visit of
\* the root.
WorkerFinishIteration ==
  /\ ~crashed
  /\ engine_.search_ # NullPtr
  /\ engine_.search_.worker = "iteration"
  /\ engine_.tree_.n < MaxRootVisits
  /\ \E h \in Hashes :
       engine_' = [engine_ EXCEPT !.cache_ = @ \cup {h},
                                  !.tree_.n = @ + 1,
                                  !.search_.total_playouts = @ + 1,
                                  !.search_.worker = "loop"]
  /\ UNCHANGED <<loop, crashed>>
  /\ EngineFrame
\* The worker leaves its loop: stop_ is set, or the search reached a limit
\* and sets it.
WorkerExit ==
  /\ ~crashed
  /\ engine_.search_ # NullPtr
  /\ engine_.search_.worker = "loop"
  /\ engine_' = [engine_ EXCEPT !.search_.stop = TRUE,
                                !.search_.worker = "none"]
  /\ UNCHANGED <<loop, crashed>>
  /\ EngineFrame

\* How the handler fn holds busy_mutex_ where it changes the controller:
\*   NewGame      line 192  SharedLock lock(busy_mutex_)
\*   SetPosition  line 200  SharedLock lock(busy_mutex_)
\*   EnsureReady  line 159  the SharedLock of UpdateNetwork; the unique_lock
\*                          of line 188 is taken when UpdateNetwork is over
\*   Go, Stop     lines 212-232  no lock (Go's SetPosition takes its own)
BusyLockHeld(fn) ==
  CASE fn = "NewGame" -> "shared"
    [] fn = "SetPosition" -> "shared"
    [] fn = "EnsureReady" -> "shared"
    [] OTHER -> "none"

EngineInit ==
  /\ call = NoCall
  /\ ret = NoCall
  /\ EngineConstructed
  /\ stream = NoStream
  /\ sync = NoSync
  /\ SearchConstructed({Go({1, 2}, FALSE, FALSE, -1, -1, -1, TRUE, {})})

EngineNext ==
  \/ CmdSetOption
  \/ CmdIsReady \/ EnsureReady
  \/ CmdUciNewGame \/ NewGameClear \/ NewGameAbort \/ NewGameFinish
  \/ CmdPosition \/ SetPositionAbort \/ SetPositionFinish
  \/ CmdGo \/ GoMakeSearch \/ GoStartThreads
  \/ CmdStop \/ StopSearch \/ StopWait
  \/ WorkerBeginIteration \/ WorkerFinishIteration \/ WorkerExit

EngineSpec == EngineInit /\ [][EngineNext]_vars

(***************************************************************************)
(* The streaming backend (neural/network_stream.cc).  The file defines     *)
(* StreamComputation and StreamNetwork twice: a first version (lines       *)
(* 36-198) and a batched version (lines 235-460); stream.version says      *)
(* which one runs.  Client threads, one per computation, call              *)
(* ComputeBlocking; the threads of the network run ThreadLoop.  An input   *)
(* is named by a number, and what the peer network computes for the input  *)
(* x is named EvalOf(x).  A peer computation is the sequence of the inputs *)
(* added to it.                                                            *)
(***************************************************************************)
\* Computations blocking at the same time, most inputs of one, and threads
\* of the network.
MaxComputations == 2
MaxBatch == 2
StreamThreads == 2
\* Most tasks ThreadStep takes from the queue at once (line 440).
kThreadStepBatch == 32

Computations == 1..MaxComputations
\* The i-th input added to computation c.
InputOf(c, i) == 10 * c + i
\* The planes a std::move has emptied.
MovedFrom == 0
EvalOf(x) == [eval_of |-> x]
Min(a, b) == IF a <= b THEN a ELSE b

\* A StreamComputation after n calls of AddInput (lines 49-51, 248-250), and
\* the thread that will call ComputeBlocking on it.
\*   pc: "new", "add" (in the loop of ComputeBlocking, mutex_ held),
\*       "wait" (in condition_.wait, mutex_ released), "returned"
\*   notified: a notify_one reached the waiting thread
\*   receives, answers: per slot, the calls of Receive for it and the
\*       stores into peers_ of it that have happened
NewComputation(c, n) ==
  [planes_ |-> [i \in 1..n |-> InputOf(c, i)],
   peers_ |-> <<>>, remaining_ |-> 0, pc |-> "new", i |-> 0,
   notified |-> FALSE,
   receives |-> [i \in 1..n |-> 0], answers |-> [i \in 1..n |-> 0]]
\* A thread of the network between two turns of ThreadLoop.
ThreadIdle == [pc |-> "step", tasks |-> <<>>, peerComp |-> <<>>, k |-> 0]

\* The options min_batch_size and max_batch_size the batched StreamNetwork
\* is constructed with (lines 374-382): the defaults, and batches of one.
kDefaultMinBatchSize == 32
kDefaultMaxBatchSize == 256
DefaultBatchOptions ==
  [min_batch_size |-> kDefaultMinBatchSize, max_batch_size |-> kDefaultMaxBatchSize]
BatchOptions(version) ==
  IF version = 1 THEN {DefaultBatchOptions}
  ELSE {DefaultBatchOptions, [min_batch_size |-> 1, max_batch_size |-> 1]}

StreamInit ==
  /\ \E v \in {1, 2} : \E size \in [Computations -> 0..MaxBatch] :
     \E options \in BatchOptions(v) :
       stream = [version |-> v,
                 min_batch_size_ |-> options.min_batch_size,
                 max_batch_size |-> options.max_batch_size,
                 tasks_ |-> <<>>,
                 comp |-> [c \in Computations |-> NewComputation(c, size[c])],
                 thr |-> [t \in 1..StreamThreads |-> ThreadIdle]]
  /\ call = NoCall
  /\ ret = NoCall
  /\ EngineConstructed
  /\ sync = NoSync
  /\ SearchConstructed({Go({1, 2}, FALSE, FALSE, -1, -1, -1, TRUE, {})})

StreamFrame ==
  UNCHANGED <<call, ret, engine_, loop, sync, config, tree, search, cache, wk, iters,
              now, host, crashed, events, obs>>

\* Whether mutex_ of computation c is free: its client holds it from the
\* start of ComputeBlocking until it waits.
MutexFree(c) == stream.comp[c].pc # "add"

\* What GetQVal(sample) reads (lines 59-61, 258-260).
Lookup(cmp, cmp_index) == [cmp_ |-> cmp, cmp_index_ |-> cmp_index]
GetQVal(c, sample) ==
  LET l == stream.comp[c].peers_[sample + 1]
  IN IF l = NullPtr THEN [garbage |-> TRUE]
     ELSE IF l.cmp_[l.cmp_index_ + 1] = MovedFrom THEN [garbage |-> TRUE]
     ELSE EvalOf(l.cmp_[l.cmp_index_ + 1])

\* ComputeBlocking up to its loop (lines 121-124, 347-350).
ComputeBlockingBegin(c) ==
  /\ stream.version # 0
  /\ stream.comp[c].pc = "new"
  /\ LET n == Len(stream.comp[c].planes_)
     IN stream' = [stream EXCEPT !.comp[c].remaining_ = n,
                                 !.comp[c].peers_ = [i \in 1..n |-> NullPtr],
                                 !.comp[c].i = 0,
                                 !.comp[c].pc = "add"]
  /\ StreamFrame

\* One turn of the loop of ComputeBlocking.  First version: Compute (lines
\* 150-163) runs a peer computation on the input, stores it in peers_ and
\* queues a task; the peer's AddInput may have emptied the planes it was
\* handed.  Batched version: Add (lines 401-405) queues a task.
ComputeBlockingLoop(c) ==
  /\ stream.version # 0
  /\ stream.comp[c].pc = "add"
  /\ stream.comp[c].i < Len(stream.comp[c].planes_)
  /\ LET i == stream.comp[c].i
         queued == [stream EXCEPT !.tasks_ = Append(@, <<c, i>>),
                                  !.comp[c].i = i + 1]
     IN IF stream.version = 1
        THEN \E left \in {stream.comp[c].planes_[i + 1], MovedFrom} :
               stream' =
                 [queued EXCEPT
                    !.comp[c].peers_[i + 1] =
                       Lookup(<<stream.comp[c].planes_[i + 1]>>, 0),
                    !.comp[c].answers[i + 1] = @ + 1,
                    !.comp[c].planes_[i + 1] = left]
        ELSE stream' = queued
  /\ StreamFrame

\* The loop is over: Flush in the batched version (line 354), and the wait
\* begins (lines 128, 355), which releases mutex_.
ComputeBlockingWait(c) ==
  /\ stream.version # 0
  /\ stream.comp[c].pc = "add"
  /\ stream.comp[c].i = Len(stream.comp[c].planes_)
  /\ stream' = [stream EXCEPT !.comp[c].pc = "wait",
                              !.comp[c].notified = FALSE]
  /\ StreamFrame

\* The wait ends and ComputeBlocking returns.  First version (line 128): the
\* wait has no predicate, so it ends when notified and may end spuriously.
\* Batched version (line 355): it ends when remaining_ is 0.
ComputeBlockingReturn(c) ==
  /\ stream.comp[c].pc = "wait"
  /\ \/ stream.version = 1 /\ stream.comp[c].notified
     \/ stream.version = 1 /\ ~stream.comp[c].notified
     \/ stream.version = 2 /\ stream.comp[c].remaining_ = 0
  /\ stream' = [stream EXCEPT !.comp[c].pc = "returned"]
  /\ StreamFrame

\* ThreadStep (lines 186-192, 434-452): wait for a task; the first version
\* takes one, the batched version up to 32.
ThreadStep(t) ==
  /\ stream.version # 0
  /\ stream.thr[t].pc = "step"
  /\ stream.tasks_ # <<>>
  /\ LET min_batch == IF stream.version = 1 THEN 1
                      ELSE Min(kThreadStepBatch, Len(stream.tasks_))
     IN stream' = [stream EXCEPT
                     !.tasks_ = SubSeq(@, min_batch + 1, Len(@)),
                     !.thr[t].tasks = SubSeq(stream.tasks_, 1, min_batch),
                     !.thr[t].pc = "compute"]
  /\ StreamFrame

\* ThreadLoop, the peer computation (lines 176-178, 422-425): the planes of
\* the tasks are added in task order and computed; the peer's AddInput may
\* empty the planes it is handed.
RECURSIVE MovePlanes(_, _, _)
MovePlanes(comps, tasks, moved) ==
  IF tasks = <<>> THEN comps
  ELSE LET c == tasks[1][1]
           i == tasks[1][2]
       IN MovePlanes(IF tasks[1] \in moved
                     THEN [comps EXCEPT ![c].planes_[i + 1] = MovedFrom]
                     ELSE comps,
                     Tail(tasks), moved)
ThreadCompute(t) ==
  /\ stream.version # 0
  /\ stream.thr[t].pc = "compute"
  /\ LET tasks == stream.thr[t].tasks
         Range == {tasks[j] : j \in 1..Len(tasks)}
     IN \E moved \in {{}, Range} :
          stream' = [stream EXCEPT
            !.thr[t].peerComp =
               [j \in 1..Len(tasks) |->
                  stream.comp[tasks[j][1]].planes_[tasks[j][2] + 1]],
            !.thr[t].k = 0,
            !.thr[t].pc = "receive",
            !.comp = MovePlanes(@, tasks, moved)]
  /\ StreamFrame

\* ThreadLoop hands one result back: Receive (lines 131-137, 359-364) under
\* mutex_ of the computation.  The first version notifies when remaining_
\* reaches 0, the batched version always.
Receive(t) ==
  /\ stream.version # 0
  /\ stream.thr[t].pc = "receive"
  /\ LET k == stream.thr[t].k
         c == stream.thr[t].tasks[k + 1][1]
         index == stream.thr[t].tasks[k + 1][2]
         last == k + 1 = Len(stream.thr[t].tasks)
         l == IF stream.version = 1
              THEN Lookup(<<stream.thr[t].peerComp[k + 1]>>, 0)
              ELSE Lookup(stream.thr[t].peerComp, k)
         notify == stream.version = 2 \/ stream.comp[c].remaining_ = 1
     IN /\ MutexFree(c)
        /\ stream' = [stream EXCEPT
             !.comp[c].peers_[index + 1] = l,
             !.comp[c].receives[index + 1] = @ + 1,
             !.comp[c].answers[index + 1] = @ + 1,
             !.comp[c].remaining_ = @ - 1,
             !.comp[c].notified =
                @ \/ (notify /\ stream.comp[c].pc = "wait"),
             !.thr[t] = IF last THEN ThreadIdle
                        ELSE [@ EXCEPT !.k = k + 1]]
  /\ StreamFrame

StreamNext ==
  \/ \E c \in Computations :
       \/ ComputeBlockingBegin(c)
       \/ ComputeBlockingLoop(c)
       \/ ComputeBlockingWait(c)
       \/ ComputeBlockingReturn(c)
  \/ \E t \in 1..StreamThreads :
       \/ ThreadStep(t)
       \/ ThreadCompute(t)
       \/ Receive(t)

StreamSpec == StreamInit /\ [][StreamNext]_vars

\* The wait of ComputeBlocking ends because it must: the thread was
\* notified (first version) or its predicate holds (batched version).  A
\* spurious wake-up may happen and is never owed.
ComputeBlockingWoken(c) ==
  /\ ComputeBlockingReturn(c)
  /\ stream.version = 1 => stream.comp[c].notified
\* The threads of the network and the threads inside ComputeBlocking are
\* scheduled fairly, and every peer computation terminates.
FairStreamSpec ==
  /\ StreamSpec
  /\ \A t \in 1..StreamThreads :
       WF_vars(ThreadStep(t) \/ ThreadCompute(t) \/ Receive(t))
  /\ \A c \in Computations :
       WF_vars(ComputeBlockingLoop(c) \/ ComputeBlockingWait(c)
               \/ ComputeBlockingWoken(c))

(***************************************************************************)
(* The mutexes of a Search (search.cc): nodes_mutex_ (a shared mutex),     *)
(* counters_mutex_ and threads_mutex_.  A method is the sequence of its    *)
(* lock operations in program order; locks are scoped, so each is released *)
(* at the end of the block that took it, the inner one first.  A thread    *)
(* runs one method at a time and one operation per step.  Worker threads   *)
(* run iterations while the search is active; caller threads call          *)
(* StartThreads, Stop, Abort, Wait, GetBestMove and GetBestEval in any     *)
(* order.  sync.thr[t] is the method thread t is in, the operations it has *)
(* left and the locks it holds; sync.threads_ is Search::threads_.         *)
(***************************************************************************)
MaxCallers == 2
Callers == (MaxThreads + 1)..(MaxThreads + MaxCallers)
Threads == Workers \cup Callers

Lock(m) == [op |-> "lock", mutex |-> m]
SharedLock(m) == [op |-> "lock_shared", mutex |-> m]
Unlock(m) == [op |-> "unlock", mutex |-> m]
Do(what) == [op |-> what, mutex |-> "none"]

MaybeOutputInfoOps ==
  <<Lock("nodes"), Lock("counters"), Unlock("counters"), Unlock("nodes")>>
MaybeTriggerStopOps ==
  <<Lock("nodes"), Lock("counters"), Do("trigger"), Unlock("counters"),
    Unlock("nodes")>>
UpdateRemainingMovesOps == <<Lock("nodes"), Unlock("nodes")>>
\* GetBestEval and GetBestMove taking the counters lock first.
GetBestOps_CountersFirst ==
  <<Lock("counters"), SharedLock("nodes"), Unlock("nodes"), Unlock("counters")>>
\* GetBestEval and GetBestMove.
GetBestOps ==
  <<SharedLock("nodes"), Lock("counters"), Unlock("counters"), Unlock("nodes")>>
\* Stop and Abort.
StopOps == <<Lock("counters"), Do("stop"), Unlock("counters")>>
StartThreadsOps == <<Lock("threads"), Do("spawn"), Unlock("threads")>>
WaitOps == <<Lock("threads"), Do("join"), Unlock("threads")>>
IsSearchActiveOps == <<Lock("counters"), Do("active"), Unlock("counters")>>
\* PickNodeToExtend: the read of best_move_node_, then per node of the
\* descent the exclusive block that starts the score update; below a node
\* with children the shared lock of the selection, under which
\* found_best_move_ is set with the counters lock when one root move is
\* possible.
PickNodeToExtendOps(deep, one_move) ==
  <<Lock("nodes"), Unlock("nodes")>>
  \o (IF deep
      THEN <<Lock("nodes"), Unlock("nodes"), SharedLock("nodes")>>
           \o (IF one_move THEN <<Lock("counters"), Unlock("counters")>>
               ELSE <<>>)
           \o <<Unlock("nodes")>>
      ELSE <<>>)
  \o <<Lock("nodes"), Unlock("nodes")>>
MaybePrefetchIntoCacheOps == <<SharedLock("nodes"), Unlock("nodes")>>
DoBackupUpdateOps == <<Lock("nodes"), Unlock("nodes")>>
ExecuteOneIterationOps(deep, one_move) ==
  PickNodeToExtendOps(deep, one_move) \o MaybePrefetchIntoCacheOps
  \o DoBackupUpdateOps \o UpdateRemainingMovesOps \o MaybeOutputInfoOps
  \o MaybeTriggerStopOps

CallerMethods ==
  {"StartThreads", "Stop", "Abort", "Wait", "GetBestMove", "GetBestEval"}
OpsOf(fn) ==
  CASE fn = "StartThreads" -> StartThreadsOps
    [] fn = "Wait" -> WaitOps
    [] fn \in {"Stop", "Abort"} -> StopOps
    [] fn \in {"GetBestMove", "GetBestEval"} -> GetBestOps

ThreadNotRunning == [fn |-> "none", ops |-> <<>>, held |-> {}, active |-> FALSE]
SyncInit == [stop_ |-> FALSE, threads_ |-> <<>>,
             thr |-> [t \in Threads |-> ThreadNotRunning]]

\* The next operation of thread t.
NextOp(t) ==
  IF sync.thr[t].ops = <<>> THEN Do("none") ELSE Head(sync.thr[t].ops)
\* How a lock operation holds its mutex.
HeldAs(o) ==
  IF o.mutex = "nodes"
  THEN (IF o.op = "lock_shared" THEN "nodes_shared" ELSE "nodes_exclusive")
  ELSE o.mutex
HoldsOf(m) == IF m = "nodes" THEN {"nodes_shared", "nodes_exclusive"} ELSE {m}
\* The threads whose hold of the mutex keeps operation o waiting; a thread
\* that holds the mutex itself is among them (the mutexes are not recursive).
Blockers(t) ==
  LET o == NextOp(t) IN
  CASE o.op = "lock" ->
         {u \in Threads : sync.thr[u].held \cap HoldsOf(o.mutex) # {}}
    [] o.op = "lock_shared" ->
         {u \in Threads : HeldAs(Lock(o.mutex)) \in sync.thr[u].held}
    [] o.op = "join" ->
         IF sync.threads_ = <<>> THEN {}
         ELSE {w \in {sync.threads_[Len(sync.threads_)]} :
                 sync.thr[w].fn # "exited"}
    [] OTHER -> {}
\* The threads t waits for.  A shared mutex may also keep a reader waiting
\* behind a writer that waits.
WaitsFor(t) ==
  Blockers(t)
  \cup (IF NextOp(t).op = "lock_shared"
        THEN {u \in Threads \ {t} : /\ NextOp(u) = Lock(NextOp(t).mutex)
                                   /\ Blockers(u) # {}}
        ELSE {})
RECURSIVE WaitChain(_, _)
\* The threads reached from the set seen along at most k waits-for edges.
WaitChain(seen, k) ==
  IF k = 0 THEN seen
  ELSE WaitChain(seen \cup UNION {WaitsFor(u) : u \in seen}, k - 1)
\* Thread t waits, directly or through others, for itself.
InWaitCycle(t) == t \in WaitChain(WaitsFor(t), Cardinality(Threads))

LockFrame ==
  UNCHANGED <<call, ret, engine_, loop, stream, config, tree, search, cache,
              wk, iters, now, host, crashed, events, obs>>
\* Thread t has done its next operation; a caller's method returns after
\* the last one.
Advance(t, thr) ==
  LET rest == Tail(thr[t].ops) IN
  [thr EXCEPT ![t].ops = rest,
              ![t].fn = IF rest = <<>> /\ t \in Callers THEN "none" ELSE @]

\* A caller thread calls a method of the search.
CallMethod(t) ==
  /\ sync.thr[t].fn = "none"
  /\ \E fn \in CallerMethods :
       sync' = [sync EXCEPT !.thr[t].fn = fn, !.thr[t].ops = OpsOf(fn)]
  /\ LockFrame
\* Mutex::Lock, SharedMutex::Lock, SharedMutex::SharedLock constructed.
AcquireLock(t) ==
  /\ NextOp(t).op \in {"lock", "lock_shared"}
  /\ Blockers(t) = {}
  /\ sync' = [sync EXCEPT
                !.thr = Advance(t, [@ EXCEPT ![t].held = @ \cup {HeldAs(NextOp(t))}])]
  /\ LockFrame
\* The lock goes out of scope.
ReleaseLock(t) ==
  /\ NextOp(t).op = "unlock"
  /\ sync' = [sync EXCEPT
                !.thr = Advance(t, [@ EXCEPT ![t].held = @ \ HoldsOf(NextOp(t).mutex)])]
  /\ LockFrame
\* Stop, Abort: stop_ = true.
SetStop(t) ==
  /\ NextOp(t).op = "stop"
  /\ sync' = [sync EXCEPT !.stop_ = TRUE, !.thr = Advance(t, @)]
  /\ LockFrame
\* MaybeTriggerStop: stop_ = true when a limit is reached.
TriggerStop(t) ==
  /\ NextOp(t).op = "trigger"
  /\ \E reached \in BOOLEAN :
       sync' = [sync EXCEPT !.stop_ = @ \/ reached, !.thr = Advance(t, @)]
  /\ LockFrame
\* StartThreads: threads are added until there are how_many of them.
SpawnThreads(t) ==
  /\ NextOp(t).op = "spawn"
  /\ LET RECURSIVE Missing(_)
         Missing(w) ==
           IF w > MaxThreads THEN <<>>
           ELSE (IF \E i \in 1..Len(sync.threads_) : sync.threads_[i] = w
                 THEN <<>> ELSE <<w>>) \o Missing(w + 1)
         new == Missing(1)
     IN sync' = [sync EXCEPT
                   !.threads_ = @ \o new,
                   !.thr = Advance(t,
                     [u \in Threads |->
                        IF \E i \in 1..Len(new) : new[i] = u
                        THEN [fn |-> "RunBlocking", ops |-> IsSearchActiveOps,
                              held |-> {}, active |-> FALSE]
                        ELSE @[u]])]
  /\ LockFrame
\* Wait: threads_.back().join(); threads_.pop_back(), while there are threads.
JoinThread(t) ==
  /\ NextOp(t).op = "join"
  /\ Blockers(t) = {}
  /\ IF sync.threads_ = <<>>
     THEN sync' = [sync EXCEPT !.thr = Advance(t, @)]
     ELSE sync' = [sync EXCEPT
                     !.threads_ = SubSeq(@, 1, Len(@) - 1),
                     !.thr[sync.threads_[Len(sync.threads_)]] = ThreadNotRunning]
  /\ LockFrame
\* IsSearchActive: return !stop_.
TestStop(t) ==
  /\ NextOp(t).op = "active"
  /\ sync' = [sync EXCEPT
                !.thr = Advance(t, [@ EXCEPT ![t].active = ~sync.stop_])]
  /\ LockFrame
\* SearchWorker::RunBlocking: while the search is active, one more
\* iteration; then the thread ends.
WorkerLoop(t) ==
  /\ t \in Workers
  /\ sync.thr[t].fn \in {"RunBlocking", "ExecuteOneIteration"}
  /\ sync.thr[t].ops = <<>>
  /\ \/ /\ sync.thr[t].fn = "RunBlocking"
        /\ sync.thr[t].active
        /\ \E deep \in BOOLEAN : \E one_move \in BOOLEAN :
             sync' = [sync EXCEPT
                        !.thr[t].fn = "ExecuteOneIteration",
                        !.thr[t].ops = ExecuteOneIterationOps(deep, one_move)]
     \/ /\ sync.thr[t].fn = "RunBlocking"
        /\ ~sync.thr[t].active
        /\ sync' = [sync EXCEPT !.thr[t].fn = "exited"]
     \/ /\ sync.thr[t].fn = "ExecuteOneIteration"
        /\ sync' = [sync EXCEPT !.thr[t].fn = "RunBlocking",
                                !.thr[t].ops = IsSearchActiveOps]
  /\ LockFrame

LockInit ==
  /\ call = NoCall
  /\ ret = NoCall
  /\ EngineConstructed
  /\ stream = NoStream
  /\ sync = SyncInit
  /\ SearchConstructed({Go({1, 2}, FALSE, FALSE, -1, -1, -1, TRUE, {})})

LockNext ==
  \/ \E t \in Callers : CallMethod(t)
  \/ \E t \in Threads :
       \/ AcquireLock(t)
       \/ ReleaseLock(t)
       \/ SetStop(t)
       \/ TriggerStop(t)
       \/ SpawnThreads(t)
       \/ JoinThread(t)
       \/ TestStop(t)
       \/ WorkerLoop(t)

LockSpec == LockInit /\ [][LockNext]_vars

(***************************************************************************)
(* Properties.                                                             *)
(***************************************************************************)
AllWorkersExited == \A w \in Workers : wk[w].pc \in {"none", "done"}
\* No worker is inside an iteration.
Quiescent == \A w \in Workers : wk[w].pc \in {"none", "loop", "done"}

\* C1: a search that was started, never aborted, stopped after at least one
\* playout and joined by Wait has invoked the best-move callback exactly once.
C1_BestMoveAfterStop ==
  (host = "joined" /\ stop /\ ~obs.aborted /\ total_playouts > 0)
    => bestmove_events = 1

\* C2: the best-move callback is invoked at most once: it is invoked only by a
\* step that takes responded_bestmove from false to true, and
\* responded_bestmove never goes back to false.
C2_BestMoveAtMostOnce ==
  [][/\ bestmove_events' <= 1
     /\ (responded_bestmove => responded_bestmove')
     /\ (bestmove_events' # bestmove_events
           => ~responded_bestmove /\ responded_bestmove'
              /\ bestmove_events' = bestmove_events + 1)]_vars

\* The best-move event was emitted while Stop, GetBestMove and other workers
\* went on.
C2_Witness ==
  /\ bestmove_events = 1 /\ responded_bestmove
  /\ obs.stop_called
  /\ \E w \in Workers : wk[w].pc = "trigger"

\* C3: once Abort has been called, no step invokes the best-move callback.
C3_NoBestMoveAfterAbort ==
  [][obs.aborted' => bestmove_events' = bestmove_events]_vars

\* A worker began an iteration after the Abort, completed a playout with a
\* limit reached, went through MaybeTriggerStop and exited silently.
C3_Witness ==
  /\ obs.aborted /\ bestmove_events = 0
  /\ total_playouts > 0
  /\ limits.playouts >= 0 /\ total_playouts >= limits.playouts
  /\ \E w \in Workers : obs.late[w] = 1 /\ wk[w].pc = "done"

\* C4: no worker begins more than one iteration with stop already set, and
\* once Stop or Abort has been called every worker thread exits (so that Wait
\* can return), unless a network computation failed.
C4_WorkersDrain ==
  /\ [](\A w \in Workers : obs.late[w] <= 1)
  /\ ((obs.stop_called \/ obs.aborted) ~> (AllWorkersExited \/ obs.nn_failed))

\* C5: whenever no worker is inside an iteration, every node has
\* n_in_flight = 0.
C5_VirtualVisitBalance ==
  Quiescent => \A n \in Nodes : n_in_flight[n] = 0

\* C6: ExtendNode runs at most once on a node; a worker about to run it holds
\* a node that was never extended, has no children and is not terminal, and no
\* other worker is about to extend the same node.
C6_ExtendOnce ==
  /\ \A n \in Nodes : obs.extended[n] <= 1
  /\ \A w \in Workers :
       wk[w].pc = "extend" =>
         /\ obs.extended[wk[w].node] = 0
         /\ ~HasChildren(wk[w].node)
         /\ ~IsTerminal(wk[w].node)
         /\ \A v \in Workers \ {w} :
              ~(wk[v].pc = "extend" /\ wk[v].node = wk[w].node)

\* One worker is about to extend a node on which the other worker collided.
C6_Witness ==
  \E w \in Workers, v \in Workers :
    /\ w # v
    /\ wk[w].pc = "extend"
    /\ \E i \in 1..Len(wk[v].ntp) :
         wk[v].ntp[i].is_collision /\ wk[v].ntp[i].node = wk[w].node

\* C7: a terminal node has no children and was never added to a computation
\* by GatherMinibatch; a leaf marked nn_queried is a non-terminal,
\* non-collision leaf; a leaf that is terminal when picked is not handed to
\* ExtendNode; and the prefetch adds no node that is marked terminal.
C7_TerminalNeverQueried ==
  /\ \A n \in Nodes : IsTerminal(n) => children[n] = {} /\ n \notin obs.queried
  /\ \A w \in Workers :
       /\ \A i \in 1..Len(wk[w].ntp) :
            wk[w].ntp[i].nn_queried =>
              ~IsTerminal(wk[w].ntp[i].node) /\ ~wk[w].ntp[i].is_collision
       /\ wk[w].pc = "prefetch" =>
            \A n \in PrefetchLeaves(Root) : ~IsTerminal(n)
       /\ wk[w].pc = "extend" => ~IsTerminal(wk[w].node)

\* A node made terminal by an earlier playout was picked again as a leaf, and
\* it was neither extended again nor queried.
C7_Witness ==
  \E w \in Workers : \E i \in 1..Len(wk[w].ntp) :
    LET e == wk[w].ntp[i] IN
    /\ IsTerminal(e.node) /\ n_[e.node] >= 1
    /\ ~e.is_collision /\ ~e.nn_queried
    /\ obs.extended[e.node] = 1
    /\ wk[w].pc = "backup"

\* C8: a call of MaybeTriggerStop that returns leaves stop set exactly when it
\* was set before or total_playouts > 0 and one of the four conditions holds;
\* with total_playouts = 0 it changes nothing of the search and emits nothing.
C8_StopDecision ==
  [][\A w \in Workers :
       (wk[w].pc = "trigger" /\ wk'[w].pc # "trigger") =>
         IF total_playouts = 0
         THEN UNCHANGED <<tree, search, events, cache>>
         ELSE stop' = \/ stop
                      \/ found_best_move
                      \/ limits.playouts >= 0 /\ total_playouts >= limits.playouts
                      \/ /\ limits.visits >= 0
                         /\ total_playouts + initial_visits >= limits.visits
                      \/ limits.time_ms >= 0 /\ now >= limits.time_ms]_vars

\* MaybeTriggerStop stopped a search on a reused tree at its visits limit,
\* which the playouts alone had not reached.
C8_Witness ==
  /\ stop /\ ~obs.stop_called /\ ~obs.aborted
  /\ limits.visits >= 0 /\ initial_visits > 0
  /\ total_playouts < limits.visits
  /\ bestmove_events = 1

\* C9 as stated: once Stop was called with total_playouts = 0, no info event
\* and no best-move event is ever emitted.
C9_NoEventAfterEarlyStop ==
  obs.stop_at_zero => info_events = 0 /\ bestmove_events = 0

\* C9, amended: after a Stop called with total_playouts = 0, no info event and
\* no best-move event is emitted for as long as total_playouts is still 0.
C9_NoEventWhileNoPlayout ==
  (obs.stop_at_zero /\ total_playouts = 0)
    => info_events = 0 /\ bestmove_events = 0

\* After the early Stop a worker went through MaybeTriggerStop with
\* total_playouts = 0 and exited.
C9_Witness ==
  /\ obs.stop_at_zero /\ total_playouts = 0 /\ obs.skipped
  /\ \E w \in Workers : wk[w].pc = "done"

\* C10: at a root without legal moves the root never gets children, an
\* extension makes it terminal, best_move_node stays null, no info event is
\* emitted, and a best-move event carries the null move.
C10_NoLegalMovesAtRoot ==
  rootLegal = {} =>
    /\ children[Root] = {}
    /\ (obs.extended[Root] >= 1 => IsTerminal(Root))
    /\ best_move_node = NoNode
    /\ info_events = 0
    /\ ~crashed
    /\ (bestmove_events > 0 => bestmove_sent = NullMove)

\* The search at a root without legal moves stopped and reported.
C10_Witness ==
  /\ rootLegal = {} /\ IsTerminal(Root)
  /\ bestmove_events = 1 /\ bestmove_sent = NullMove

\* C11: once a ComputeBlocking has failed, the search is stopped and every
\* worker exits, and no best-move event is emitted after the failure.
C11_FailureStopsSearch ==
  /\ [][obs.nn_failed => bestmove_events' = bestmove_events]_vars
  /\ (obs.nn_failed ~> (stop /\ AllWorkersExited))

\* C12: with searchmoves given and a root that has children, a best-move
\* event carries one of the listed moves and the selection of the best move
\* never reads through a null pointer.
C12_BestMoveIsListed ==
  (limits.searchmoves # {} /\ HasChildren(Root)) =>
    /\ (crashed => obs.nn_failed)
    /\ (bestmove_events > 0 => bestmove_sent \in limits.searchmoves)

\* C13: with searchmoves given, a root child whose move is not listed is never
\* visited: its N and n_in_flight stay 0, as they are when the search starts.
C13_UnlistedChildrenUntouched ==
  limits.searchmoves # {} =>
    \A c \in children[Root] :
      NotInSearchMoves(c) => n_[c] = 0 /\ n_in_flight[c] = 0

C14_BestChildIsMaximal ==
  (/\ ret.fn = "BestNode"
   /\ \/ call.kTemperature = 0
      \/ call.kTempDecayMoves # 0 /\ call.ply \div 2 >= call.kTempDecayMoves
      \/ \A i \in 1..Len(call.kids) : call.kids[i].n = 0
   /\ \E i \in 1..Len(call.kids) : call.kids[i].listed)
  => LET kids == call.kids
         Qm10(i) == IF kids[i].n = 0 THEN -10 ELSE kids[i].q
         b == ret.node
     IN /\ b \in 1..Len(kids)
        /\ kids[b].listed
        /\ \A j \in 1..Len(kids) :
             kids[j].listed =>
               /\ kids[j].n <= kids[b].n
               /\ kids[j].n = kids[b].n => Qm10(j) <= Qm10(b)
               /\ (kids[j].n = kids[b].n /\ Qm10(j) = Qm10(b))
                    => kids[j].p <= kids[b].p

\* Without temperature, the chosen child beat a later listed child of equal N
\* and lower Q, and an earlier listed child of equal N and Q and lower P.
C14_Witness ==
  /\ ret.fn = "BestNode"
  /\ call.kTemperature = 0
  /\ Len(call.kids) = 3
  /\ ret.node = 2
  /\ \A i \in 1..3 : call.kids[i].listed /\ call.kids[i].n = 1
  /\ call.kids[1].q = call.kids[2].q /\ call.kids[1].p < call.kids[2].p
  /\ call.kids[3].q < call.kids[2].q /\ call.kids[3].p = call.kids[2].p

\* C16: for a go that is not infinite and has a clock time >= 0, the returned
\* time_ms is >= 0, is <= time - overhead when time >= overhead, and is 0
\* otherwise.
C16_TimeWithinClock ==
  LET time == IF call.is_black THEN call.params.btime ELSE call.params.wtime
  IN (ret.fn = "PopulateSearchLimits" /\ ~call.params.infinite /\ time >= 0)
     => /\ ret.limits.time_ms >= 0
        /\ time >= call.move_overhead
             => ret.limits.time_ms <= time - call.move_overhead
        /\ time < call.move_overhead => ret.limits.time_ms = 0

\* With one move to go and slowmover 1.93 the computed time exceeds what the
\* clock allows, and time - overhead is returned.
C16_Witness ==
  /\ ret.fn = "PopulateSearchLimits"
  /\ ~call.params.infinite /\ ~call.is_black
  /\ call.params.movestogo = 1 /\ call.slowmover = 193
  /\ call.this_move_weight > 0
  /\ call.params.wtime > call.move_overhead /\ call.move_overhead > 0
  /\ ret.limits.time_ms = call.params.wtime - call.move_overhead

\* C17: whenever the go carries movetime >= 0, the returned time_ms is
\* movetime.
C17_MoveTimeWins ==
  (ret.fn = "PopulateSearchLimits" /\ call.params.movetime >= 0)
    => ret.limits.time_ms = call.params.movetime

\* C18: when new_game returns, whatever happened before, the cache is empty
\* and the tree is absent.
C18_NewGameIsolation ==
  [][(loop.fn = "NewGame" /\ loop'.fn = "idle")
       => (engine_'.cache_ = {} /\ engine_'.tree_ = NullPtr)]_vars

\* C19: every search a go creates, the current option values being ones a
\* network can be made from, has the network made from those values.
C19_SearchUsesCurrentOptions ==
  [][(/\ loop.fn = "Go" /\ loop.at = 213 /\ loop'.at = 450
      /\ LoadWeightsFromFile(engine_.options_.weights)
      /\ Create(engine_.options_.backend, engine_.options_.backend_opts))
       => loop'.made.network = NetworkOf(engine_.options_)]_vars

\* C20: when a handler ends because UpdateNetwork failed, the recorded network
\* path, backend and backend options and the network handle are what they
\* were before that step.
C20_FailedUpdateKeepsState ==
  [][(loop.fn # "idle" /\ loop'.threw)
       => /\ engine_'.network_path_ = engine_.network_path_
          /\ engine_'.backend_ = engine_.backend_
          /\ engine_'.backend_options_ = engine_.backend_options_
          /\ engine_'.network_ = engine_.network_]_vars

\* C21: once ComputeBlocking has returned, every input of the computation
\* has been answered by a thread of the network (remaining_ is 0) and what
\* is read for slot i is the peer network's evaluation of the i-th input.
C21_AnsweredInSlotOrder ==
  \A c \in Computations :
    (stream.version # 0 /\ stream.comp[c].pc = "returned")
      => /\ stream.comp[c].remaining_ = 0
         /\ \A i \in 1..Len(stream.comp[c].planes_) :
              GetQVal(c, i - 1) = EvalOf(InputOf(c, i))

\* C22: in an infinite search found_best_move is never set, and an infinite
\* search without visits, playouts or time limit has emitted no best-move
\* event as long as Stop has not been called.
C22_InfiniteNeverFindsBestMove ==
  limits.infinite =>
    /\ ~found_best_move
    /\ (/\ limits.visits < 0 /\ limits.playouts < 0 /\ limits.time_ms < 0
        /\ ~obs.stop_called)
         => bestmove_events = 0

\* In an infinite search restricted to one root move, a worker has passed the
\* selection at the root, where one move was possible, and has a playout.
C22_Witness ==
  /\ limits.infinite
  /\ limits.searchmoves = {1}
  /\ total_playouts > 0
  /\ ~obs.stop_called
  /\ \E w \in Workers : wk[w].pc = "start" /\ wk[w].node = 1

\* C23: whenever best_move_node is non-null (a backup is one step, so none
\* is in progress), it is a child of the root and no child of the root has
\* more visits.
C23_BestMoveNodeHasMostVisits ==
  best_move_node # NoNode =>
    /\ best_move_node \in children[Root]
    /\ \A c \in children[Root] : n_[best_move_node] >= n_[c]

\* C24: when a worker has gathered its minibatch, the k-th nn-queried leaf is
\* the input of slot k of the computation; and when FetchNNResults has run,
\* every nn-queried leaf has the results computed for its own position.
QueriedLeaves(ntp) ==
  SelectSeq(ntp, LAMBDA e : e.nn_queried)
C24_LeafReadsOwnSlot ==
  \A w \in Workers :
    LET leaves == QueriedLeaves(wk[w].ntp) IN
    /\ wk[w].pc \in {"prefetch", "compute"} =>
         /\ Len(leaves) <= Len(wk[w].comp)
         /\ \A k \in 1..Len(leaves) : wk[w].comp[k].node = leaves[k].node
    /\ wk[w].pc = "backup" =>
         \A k \in 1..Len(leaves) : leaves[k].v_of = leaves[k].node

\* C25: when a playouts limit is set, UpdateRemainingMoves leaves in
\* remaining_playouts the smaller of what the time and visits limits allow and
\* playouts_limit - total_playouts + minibatch_size + 1 (never less than 1),
\* whatever the visits limit is.
C25_PlayoutsBoundUsesPlayoutsLimit ==
  [][\A w \in Workers :
       (/\ wk[w].pc = "remaining" /\ wk'[w].pc = "info"
        /\ kSmartPruning /\ limits.playouts >= 0)
       => LET bound == limits.playouts - total_playouts + kMiniBatchSize + 1
              r == IF bound < RemainingBeforePlayouts
                   THEN bound ELSE RemainingBeforePlayouts
          IN remaining_playouts' = IF r <= 1 THEN 1 ELSE r]_vars

\* C26: when a worker is about to run the selection loop at the root, a root
\* child c is skipped by the pruning test exactly when c is not the current
\* best_move_node and remaining_playouts < N(best_move_node) - N(c), with
\* N(best_move_node) as it is at that moment.
C26_PruningUsesCurrentVisits ==
  \A w \in Workers :
    (wk[w].pc = "select" /\ wk[w].is_root /\ best_move_node # NoNode)
    => \A c \in children[Root] :
         IsPruned(c, wk[w].best_n)
         <=> (/\ c # best_move_node
              /\ remaining_playouts < n_[best_move_node] - n_[c])

\* C27: when the best node is chosen with temperature, the child returned is
\* a listed child whose interval of the cumulative sums contains the toss, and
\* for no toss, 0 included, is it a child with N = 0.
C27_TossNeverPicksUnvisited ==
  (ret.fn = "BestNode" /\ ret.toss # NoToss)
  => LET kids == call.kids
         listed == ListedKids(kids, 1)
         sums == CumulativeSums(kids, listed, 1 + ChildrenVisits(kids, 1),
                   EffectiveTemperature(call.kTemperature, call.kTempDecayMoves,
                                        call.ply), Len(listed))
     IN \E k \in 1..Len(listed) :
          /\ ret.node = listed[k]
          /\ (IF k = 1 THEN 0 ELSE sums[k - 1]) <= ret.toss
          /\ ret.toss <= sums[k]
          /\ kids[ret.node].n > 0

\* C28: for a go with a clock, PopulateSearchLimits multiplies this_move_time
\* by slowmover exactly when slowmover >= 1.0 or this_move_time * slowmover
\* is more than 200 ms: the returned time_ms is the clamp of the move time
\* scaled, or left alone, by that rule.
C28_SlowMoverApplied ==
  (/\ ret.fn = "PopulateSearchLimits"
   /\ ~call.params.infinite
   /\ (IF call.is_black THEN call.params.btime ELSE call.params.wtime) >= 0)
  => LET params == call.params
         time == IF call.is_black THEN params.btime ELSE params.wtime
         increment == Max(0, IF call.is_black THEN params.binc ELSE params.winc)
         movestogo == MovesToGo(params)
         others == IF movestogo > 1 THEN call.other_move_weights ELSE 0
         weights == call.this_move_weight + others
         this_move_time ==
           (TotalMovesTime(time, increment, movestogo, call.move_overhead)
              * 10 * call.this_move_weight) \div weights
         scaled ==
           IF \/ call.slowmover >= 100
              \/ this_move_time * call.slowmover > kSmartPruningToleranceMs * 1000
           THEN (this_move_time * call.slowmover) \div 100
           ELSE this_move_time
     IN weights # 0
        => ret.limits.time_ms
             = ClampMoveTime(scaled \div 10, time, call.move_overhead)

\* C29: every step of a worker that mutates a node (its children, its
\* terminal mark, N, n_in_flight, its depths, or V and P from the network's
\* results) is taken with the nodes lock held in exclusive mode.
C29_NodeWritesUnderNodesLock ==
  [][\A w \in Workers :
       (/\ wk'[w] # wk[w]
        /\ \/ tree' # tree
           \/ IF wk[w].pc = "compute" /\ wk'[w].pc = "backup"
              THEN \E i \in 1..Len(wk[w].ntp) :
                     wk'[w].ntp[i].v_of # wk[w].ntp[i].v_of
              ELSE FALSE)
       => "nodes_exclusive" \in LocksHeldWriting(wk[w].pc)]_vars

\* C30: every step of a worker that writes stop, responded_bestmove,
\* total_playouts, remaining_playouts, found_best_move or best_move_node is
\* taken with the counters lock held.
C30_CounterWritesUnderCountersLock ==
  [][\A w \in Workers :
       (/\ wk'[w] # wk[w]
        /\ <<stop, responded_bestmove, total_playouts, remaining_playouts,
             found_best_move, best_move_node>>'
           # <<stop, responded_bestmove, total_playouts, remaining_playouts,
                found_best_move, best_move_node>>)
       => "counters" \in LocksHeldWriting(wk[w].pc)]_vars

\* C31: every step of NewGame, SetPosition and UpdateNetwork (run by
\* EnsureReady) that changes the cache, the tree, the search or the network
\* is taken with the busy lock held in exclusive mode.
C31_MutationsHoldBusyExclusive ==
  [][(/\ loop' # loop
      /\ loop.fn \in {"NewGame", "SetPosition", "EnsureReady"}
      /\ <<engine_.cache_, engine_.tree_, engine_.search_, engine_.network_>>'
         # <<engine_.cache_, engine_.tree_, engine_.search_, engine_.network_>>)
     => BusyLockHeld(loop.fn) = "exclusive"]_vars

\* C32: each batch a thread of the batched stream network forms in ThreadStep
\* has at most max_batch_size inputs, and at least min_batch_size inputs
\* whenever that many tasks were queued.
C32_BatchWithinConfiguredSizes ==
  [][\A t \in 1..StreamThreads :
       (/\ stream.version = 2
        /\ stream.thr[t].pc = "step" /\ stream'.thr[t].pc = "compute")
       => /\ Len(stream'.thr[t].tasks) <= stream.max_batch_size
          /\ Len(stream.tasks_) >= stream.min_batch_size_
               => Len(stream'.thr[t].tasks) >= stream.min_batch_size_]_vars

\* C33: the root is terminal only when it has no legal moves, even when its
\* position meets a draw rule: once extended with legal moves it is not
\* terminal and has them as children.  Every other extended node that has
\* legal moves and meets a draw rule is a terminal draw without children.
C33_DrawRulesSpareRoot ==
  /\ IsTerminal(Root) => rootLegal = {}
  /\ (obs.extended[Root] > 0 /\ rootLegal # {})
       => (~IsTerminal(Root) /\ children[Root] = rootLegal)
  /\ \A n \in Nodes \ {Root} :
       (obs.extended[n] > 0 /\ GenerateLegalMoves(n) # {} /\ IsDrawByRule(n))
         => (terminal[n] = "DRAW" /\ children[n] = {})

\* The root, a position drawn by rule, was extended and has its legal moves
\* as children, and a playout went on below it.
C33_Witness ==
  /\ obs.extended[Root] > 0 /\ IsDrawByRule(Root)
  /\ children[Root] = rootLegal /\ rootLegal # {}
  /\ ~IsTerminal(Root)
  /\ \E c \in children[Root] : obs.extended[c] > 0

\* C34: once the best-move event has been emitted, or Abort has been called,
\* no step emits an info event.
C34_NoInfoAfterBestMove ==
  [][(bestmove_events > 0 \/ obs.aborted) => info_events' = info_events]_vars

\* After the best-move event cleared best_move_node, a worker finishing its
\* iteration set it again and went through MaybeOutputInfo.
C34_Witness ==
  /\ bestmove_events = 1
  /\ best_move_node # NoNode
  /\ \E w \in Workers : wk[w].pc = "trigger"

\* C35: a handler resets or trims the tree, and starts the worker of a new
\* search, only when the worker of the previous search has been joined.
C35_OneSearchRuns ==
  [][loop' # loop
     => /\ engine_'.tree_ # engine_.tree_
             => (IF engine_.search_ = NullPtr THEN TRUE
                 ELSE engine_.search_.worker = "none")
        /\ (loop.fn = "Go" /\ loop'.fn = "idle" /\ ~loop'.threw)
             => (IF engine_.search_ = NullPtr THEN TRUE
                 ELSE engine_.search_.worker = "none")]_vars

\* A go arrived while the previous search was inside an iteration: the new
\* Search is made and the handler waits in the destructor of the old one.
C35_Witness ==
  /\ loop.fn = "Go" /\ loop.at = 450
  /\ loop.made # NullPtr
  /\ IF engine_.search_ = NullPtr THEN FALSE
     ELSE engine_.search_.worker = "iteration" /\ engine_.search_.stop

\* C36: for the search of the controller, N of the root is initial_visits
\* plus total_playouts, also for a search that go created while the previous
\* search on the same tree was still running.
C36_RootVisitsAreCounted ==
  IF engine_.search_ = NullPtr \/ engine_.tree_ = NullPtr THEN TRUE
  ELSE engine_.tree_.n
         = engine_.search_.initial_visits + engine_.search_.total_playouts


\* The order in which the mutexes of a search are taken.
LockRank(h) ==
  CASE h = "threads" -> 1
    [] h \in {"nodes_shared", "nodes_exclusive"} -> 2
    [] h = "counters" -> 3
\* C37: no interleaving of worker iterations with Stop, Abort, Wait,
\* StartThreads, GetBestMove and GetBestEval deadlocks: no thread waits,
\* directly or through other threads, for itself; a thread that takes a
\* mutex holds only mutexes earlier in the order threads, nodes, counters
\* (nodes before counters everywhere); and no thread waits for a mutex it
\* holds.
C37_NoDeadlock ==
  \A t \in Threads :
    /\ ~InWaitCycle(t)
    /\ t \notin Blockers(t)
    /\ NextOp(t).op \in {"lock", "lock_shared"}
         => \A h \in sync.thr[t].held : LockRank(h) < LockRank(HeldAs(NextOp(t)))
\* A worker holds the nodes lock and waits for the counters lock, which a
\* caller holds inside Stop or Abort, while another caller waits in Wait,
\* holding the threads lock, for a worker to end.
C37_Witness ==
  /\ \E w \in Workers : \E c \in Callers :
       /\ "nodes_exclusive" \in sync.thr[w].held
       /\ NextOp(w) = Lock("counters")
       /\ c \in Blockers(w)
       /\ sync.thr[c].fn \in {"Stop", "Abort"}
  /\ \E c \in Callers :
       /\ sync.thr[c].fn = "Wait"
       /\ "threads" \in sync.thr[c].held
       /\ Blockers(c) # {}

\* C38: every step of the descent of PickNodeToExtend moves from the
\* current node to one of its children, whatever the searchmoves list and
\* the smart-pruning state are.
C38_DescentMovesToChild ==
  [][\A w \in Workers :
       (wk[w].pc = "select" /\ wk'[w].pc = "start")
         => wk'[w].node \in children[wk[w].node]]_vars

\* The tasks in the queue and in the hands of the threads, for slot i of
\* computation c; a thread's tasks from its k-th on are not yet received.
TasksPendingFor(c, i) ==
  Cardinality({j \in 1..Len(stream.tasks_) : stream.tasks_[j] = <<c, i>>})
  + Cardinality({tj \in (1..StreamThreads) \X (1..MaxComputations * MaxBatch) :
                   /\ tj[2] <= Len(stream.thr[tj[1]].tasks)
                   /\ tj[2] > stream.thr[tj[1]].k
                   /\ stream.thr[tj[1]].tasks[tj[2]] = <<c, i>>})
\* C39: every (computation, slot) task pushed to the queue is taken by one
\* thread and causes one Receive for its slot: a pushed slot has one task
\* pending and no Receive yet, or no task pending and one Receive; the
\* remaining_ counter is never negative; and no slot is answered twice.
C39_EachTaskAnsweredOnce ==
  \A c \in Computations :
    /\ stream.comp[c].remaining_ >= 0
    /\ \A i \in 1..Len(stream.comp[c].planes_) :
         /\ stream.comp[c].answers[i] <= 1
         /\ TasksPendingFor(c, i - 1) + stream.comp[c].receives[i]
              = (IF stream.comp[c].pc # "new" /\ i <= stream.comp[c].i
                 THEN 1 ELSE 0)

\* C40: every call of ComputeBlocking eventually returns, whatever the
\* batch size (0 included) and however many computations block at once,
\* when the threads are scheduled fairly and peer computations terminate.
C40_ComputeBlockingReturns ==
  \A c \in Computations :
    (stream.comp[c].pc = "add") ~> (stream.comp[c].pc = "returned")

=============================================================================
